---- MODULE Spec2Model ----
(***************************************************************************)
(* A model of the lazy-indexing and CFA aggregation code of cf-python:     *)
(*   cf/data/array/mixin/indexmixin.py      IndexMixin                     *)
(*   cf/data/array/mixin/cfamixin.py        CFAMixin                       *)
(*   cf/data/fragment/netcdffragmentarray.py NetCDFFragmentArray           *)
(*   cf/data/array/netcdfarray.py           NetCDFArray._dask_lock         *)
(*   cf/data/collapse/collapse_active.py    actify                         *)
(*                                                                         *)
(* The specifications that share the module:                               *)
(*   SpecIndex  chains of IndexMixin.__getitem__ on one array              *)
(*   SpecDoc    the example of the IndexMixin docstrings                   *)
(*   SpecCFA    _parse_cfa, subarray_shapes, subarrays, to_dask_array      *)
(*   SpecAgg    get_aggregated_data and changes to what it returned        *)
(*   SpecFrag   NetCDFFragmentArray.__getitem__ over its candidates        *)
(*   SpecLock   tasks that read through arrays under their _dask_lock      *)
(*   SpecActive one call of a chunk function decorated by actify           *)
(* The variables of the others are held still in each of them.             *)
(***************************************************************************)
EXTENDS Integers, Sequences, FiniteSets, TLC

(***************************************************************************)
(* Bounds of the model.                                                    *)
(***************************************************************************)
\* Largest size of the indexed dimension of the original array.
MaxSize == 3
\* Longest chain of subspace operations.
MaxDepth == 2
\* Longest integer-array index that is requested.
MaxArr == 2
\* Size of the second dimension of the original array.
Dim2Size == 2
\* Most fragments along the first dimension of an aggregate.
MaxFrags == 2
\* Largest extent of one fragment along the first dimension.
MaxExtent == 2
\* Most loops over one of the iterators that subarrays returns.
MaxPasses == 2
\* Most candidate files of one fragment.
MaxCandidates == 3

VARIABLES
    \* IndexMixin: the array that the next subspace is taken of
    shape,      \* its "shape" component
    cindex,     \* _custom["index"]: None or Some(tuple of entries)
    coshape,    \* _custom["original_shape"]: None or Some(shape)
    err,        \* the exception the last call raised, or "none"
    depth,      \* number of __getitem__ calls that returned
    last,       \* per original dimension, what the last call paired
    expect,     \* per original dimension, the positions that applying
                \* the receiver's index and then the new index selects
    older,      \* the first array of the chain, once it was subspaced
    call,       \* what the last __getitem__ call was given
    request     \* the indices of the documented example asked so far

VARIABLES
    \* CFAMixin: one aggregated array
    cfa,        \* what _parse_cfa returned, or its exception
    plan,       \* what the last subarray_shapes call returned
    iters,      \* the six iterators that subarrays returned
    passes,     \* which iterator has been looped over, and how often
    yielded,    \* the records that the last loop over it yielded
    graph,      \* what the last to_dask_array call returned
    got         \* what the last get_aggregated_data call returned

VARIABLES
    \* NetCDFFragmentArray: one fragment
    fragment,   \* its filename and address components
    resolved    \* what the last __getitem__ call did and returned

\* The number of tasks that read through file-backed arrays at once.
MaxReaders == 2

VARIABLES
    \* NetCDFArray._dask_lock: tasks that read through array instances
    instance,   \* per reader, the file name of its array, or None
    locks,      \* SerializableLock._locks: token -> lock
    made,       \* number of locks created so far
    obtained,   \* per reader, the value of _dask_lock it holds, or None
    pc          \* per reader, where its read has got to

VARIABLES
    \* actify: one call of a decorated chunk function
    chunk_call, \* its arguments and the settings it runs under
    chunk_out   \* what the call returned or raised

indexVars == <<shape, cindex, coshape, err, depth, last, expect, older, call,
               request>>
cfaVars == <<cfa, plan, iters, passes, yielded, graph, got>>
fragVars == <<fragment, resolved>>
lockVars == <<instance, locks, made, obtained, pc>>
activeVars == <<chunk_call, chunk_out>>
vars == <<shape, cindex, coshape, err, depth, last, expect, older, call,
          request, cfa, plan, iters, passes, yielded, graph, got, fragment, resolved,
          instance, locks, made, obtained, pc, chunk_call, chunk_out>>

(***************************************************************************)
(* Python values.                                                          *)
(***************************************************************************)
\* None and a present value, as sequences of length 0 and 1.
None == <<>>
Some(n) == <<n>>
IsNone(o) == o = <<>>

\* No task reads through an array, and no chunk function is called.
NoReaders ==
    /\ instance = <<>> /\ locks = <<>> /\ made = 0
    /\ obtained = <<>> /\ pc = <<>>
NoChunkCall == chunk_call = None /\ chunk_out = None

\* slice(start, stop, step); each part is None or Some(n).
Slice(a, b, c) == [start |-> a, stop |-> b, step |-> c]
\* slice(None)
FullSlice == Slice(None, None, None)
\* An integer index, an integer-array index and a boolean-array index.
IntIdx(n) == [i |-> n]
ArrIdx(s) == [a |-> s]
MaskIdx(s) == [m |-> s]
IsSlice(e) == "start" \in DOMAIN e
IsInt(e) == "i" \in DOMAIN e
IsArr(e) == "a" \in DOMAIN e
IsMask(e) == "m" \in DOMAIN e

\* Python's floor division (divmod) for a divisor of either sign.
FloorDiv(a, b) == IF b > 0 THEN a \div b ELSE (0 - a) \div (0 - b)
PyMod(a, b) == a - b * FloorDiv(a, b)
Max2(a, b) == IF a > b THEN a ELSE b
Min2(a, b) == IF a < b THEN a ELSE b

\* slice.indices(length): the (start, stop, step) of the slice on a
\* sequence of that length.
SliceIndices(s, length) ==
    LET step == IF IsNone(s.step) THEN 1 ELSE s.step[1]
        lower == IF step > 0 THEN 0 ELSE 0 - 1
        upper == IF step > 0 THEN length ELSE length - 1
        start == IF IsNone(s.start)
                 THEN (IF step < 0 THEN upper ELSE lower)
                 ELSE IF s.start[1] < 0
                      THEN Max2(s.start[1] + length, lower)
                      ELSE Min2(s.start[1], upper)
        stop == IF IsNone(s.stop)
                THEN (IF step < 0 THEN lower ELSE upper)
                ELSE IF s.stop[1] < 0
                     THEN Max2(s.stop[1] + length, lower)
                     ELSE Min2(s.stop[1], upper)
    IN <<start, stop, step>>

\* len(range(start, stop, step))
RangeLen(start, stop, step) ==
    IF step > 0
    THEN (IF start < stop THEN ((stop - start - 1) \div step) + 1 ELSE 0)
    ELSE (IF stop < start THEN ((start - stop - 1) \div (0 - step)) + 1 ELSE 0)

\* np.arange(start, stop, step) as a sequence.
Arange(t) ==
    [k \in 1..RangeLen(t[1], t[2], t[3]) |-> t[1] + (k - 1) * t[3]]

\* The positions of a dimension of the given size that an index entry
\* selects, in order (an integer selects one position).
Positions(e, size) ==
    IF IsSlice(e) THEN Arange(SliceIndices(e, size))
    ELSE IF IsInt(e) THEN <<e.i>>
    ELSE e.a

\* The elements of a boolean mask's True positions, in order.
RECURSIVE MaskSelect(_, _, _)
MaskSelect(seq, mask, k) ==
    IF k > Len(mask) THEN <<>>
    ELSE (IF mask[k] THEN <<seq[k]>> ELSE <<>>) \o MaskSelect(seq, mask, k + 1)

\* Whether integer n is a valid position (possibly negative) of a
\* sequence of length len, and the element it names.
InRange(n, len) == n >= 0 - len /\ n < len
At(seq, n) == IF n < 0 THEN seq[n + Len(seq) + 1] ELSE seq[n + 1]

\* Indexing that wraps an out-of-range integer round (numpy's
\* mode="wrap") where numpy indexing raises.
NumpyTakeWrapping(seq, ind1) ==
    LET wrap(n) == seq[(n % Len(seq)) + 1]
    IN IF IsSlice(ind1)
       THEN LET p == Arange(SliceIndices(ind1, Len(seq)))
            IN [err |-> FALSE,
                val |-> ArrIdx([k \in 1..Len(p) |-> seq[p[k] + 1]])]
       ELSE IF IsInt(ind1)
       THEN (IF Len(seq) > 0
             THEN [err |-> FALSE, val |-> IntIdx(wrap(ind1.i))]
             ELSE [err |-> TRUE, val |-> IntIdx(0)])
       ELSE IF IsArr(ind1)
       THEN (IF Len(seq) > 0 \/ Len(ind1.a) = 0
             THEN [err |-> FALSE,
                   val |-> ArrIdx([k \in 1..Len(ind1.a) |-> wrap(ind1.a[k])])]
             ELSE [err |-> TRUE, val |-> IntIdx(0)])
       ELSE (IF Len(ind1.m) = Len(seq)
             THEN [err |-> FALSE, val |-> ArrIdx(MaskSelect(seq, ind1.m, 1))]
             ELSE [err |-> TRUE, val |-> IntIdx(0)])

\* numpy indexing of a one-dimensional integer array by one index entry:
\* [err |-> an IndexError is raised, val |-> the new entry].
NumpyTake(seq, ind1) ==
    IF IsSlice(ind1)
    THEN LET p == Arange(SliceIndices(ind1, Len(seq)))
         IN [err |-> FALSE, val |-> ArrIdx([k \in 1..Len(p) |-> seq[p[k] + 1]])]
    ELSE IF IsInt(ind1)
    THEN (IF InRange(ind1.i, Len(seq))
          THEN [err |-> FALSE, val |-> IntIdx(At(seq, ind1.i))]
          ELSE [err |-> TRUE, val |-> IntIdx(0)])
    ELSE IF IsArr(ind1)
    THEN (IF \A k \in 1..Len(ind1.a) : InRange(ind1.a[k], Len(seq))
          THEN [err |-> FALSE,
                val |-> ArrIdx([k \in 1..Len(ind1.a) |-> At(seq, ind1.a[k])])]
          ELSE [err |-> TRUE, val |-> IntIdx(0)])
    ELSE (IF Len(ind1.m) = Len(seq)
          THEN [err |-> FALSE, val |-> ArrIdx(MaskSelect(seq, ind1.m, 1))]
          ELSE [err |-> TRUE, val |-> IntIdx(0)])

(***************************************************************************)
(* IndexMixin                                                              *)
(***************************************************************************)
\* cf.functions.parse_indices(shape, indices, keepdims=False): the index
\* must have one entry for each dimension of the current shape, or the
\* call fails with a shape mismatch.
parse_indices(shape0, index) ==
    [err |-> Len(index) # Len(shape0), val |-> index]

\* cf.functions.indices_shape(indices, full_shape, keepdims=False), for
\* one entry: the size of the dimension after the entry is applied.
EntrySize(e, full_size) ==
    IF IsSlice(e)
    THEN LET t == SliceIndices(e, full_size)
             n == t[2] - t[1]
             an == IF n < 0 THEN 0 - n ELSE n
             as == IF t[3] < 0 THEN 0 - t[3] ELSE t[3]
         IN IF n * t[3] < 0 THEN 0 ELSE (an + as - 1) \div as
    ELSE IF IsMask(e) THEN Len(MaskSelect(e.m, e.m, 1))
    ELSE Len(e.a)

\* indices_shape: integer entries add no dimension to the shape.
RECURSIVE indices_shape(_, _)
indices_shape(indices, full_shape) ==
    IF Len(indices) = 0 THEN <<>>
    ELSE (IF IsInt(Head(indices)) THEN <<>>
          ELSE <<EntrySize(Head(indices), Head(full_shape))>>)
         \o indices_shape(Tail(indices), Tail(full_shape))

\* The index property: the stored index, or one slice(None) per dimension.
IndexProp(custom_index, shp) ==
    IF IsNone(custom_index) THEN [d \in 1..Len(shp) |-> FullSlice]
    ELSE custom_index[1]

\* The original_shape property: the stored one, or the current shape.
OriginalShapeProp(custom_oshape, shp) ==
    IF IsNone(custom_oshape) THEN shp ELSE custom_oshape[1]

\* The slice/slice branch of __getitem__.
ComposeSlice(ind0, ind1, original_size, size0) ==
    LET t0 == SliceIndices(ind0, original_size)
        t1 == SliceIndices(ind1, size0)
        q == FloorDiv(t1[2] - t1[1], t1[3])
        mod1 == PyMod(t1[2] - t1[1], t1[3])
        size1 == IF mod1 # 0 THEN q + 1 ELSE q
        start == t0[1] + t1[1] * t0[3]
        step == t0[3] * t1[3]
        stopA == start + (size1 - 1) * step
        stopB == IF step > 0 THEN stopA + 1 ELSE stopA - 1
    IN Slice(Some(start), IF stopB < 0 THEN None ELSE Some(stopB), Some(step))

\* One pass of the loop body for a dimension that still exists:
\* [err |-> IndexError raised, val |-> the new entry].
ComposeEntry(ind0, ind1, original_size, size0) ==
    IF IsSlice(ind1) /\ ind1 = FullSlice
    THEN [err |-> FALSE, val |-> ind0]
    ELSE IF IsSlice(ind0)
    THEN (IF IsSlice(ind1)
          THEN [err |-> FALSE,
                val |-> ComposeSlice(ind0, ind1, original_size, size0)]
          ELSE NumpyTake(Arange(SliceIndices(ind0, original_size)), ind1))
    ELSE NumpyTake(ind0.a, ind1)

\* The loop without the entry of a dimension that an integer removed
\* before.
RECURSIVE GetItemLoopDroppingIntegers(_, _, _, _, _, _)
GetItemLoopDroppingIntegers(index0, original_shape, index, shape0, d, i) ==
    IF d > Len(index0) THEN <<>>
    ELSE IF IsInt(index0[d])
    THEN GetItemLoopDroppingIntegers(index0, original_shape, index, shape0,
                                     d + 1, i)
    ELSE <<ComposeEntry(index0[d], index[i], original_shape[d], shape0[i])>>
         \o GetItemLoopDroppingIntegers(index0, original_shape, index, shape0,
                                        d + 1, i + 1)

\* The loop in which a dimension that an integer removed before also
\* takes an entry of the new index.
RECURSIVE GetItemLoopCountingIntegers(_, _, _, _, _, _)
GetItemLoopCountingIntegers(index0, original_shape, index, shape0, d, i) ==
    IF d > Len(index0) THEN <<>>
    ELSE IF IsInt(index0[d])
    THEN <<[err |-> FALSE, val |-> index0[d]]>>
         \o GetItemLoopCountingIntegers(index0, original_shape, index,
                                        shape0, d + 1, i + 1)
    ELSE <<ComposeEntry(index0[d],
                        IF i \in DOMAIN index THEN index[i] ELSE FullSlice,
                        original_shape[d],
                        IF i \in DOMAIN shape0 THEN shape0[i] ELSE 0)>>
         \o GetItemLoopCountingIntegers(index0, original_shape, index,
                                        shape0, d + 1, i + 1)

\* The loop over the dimensions of the original array; i counts the
\* entries of the new index used so far.
RECURSIVE GetItemLoop(_, _, _, _, _, _)
GetItemLoop(index0, original_shape, index, shape0, d, i) ==
    IF d > Len(index0) THEN <<>>
    ELSE IF IsInt(index0[d])
    THEN <<[err |-> FALSE, val |-> index0[d]]>>
         \o GetItemLoop(index0, original_shape, index, shape0, d + 1, i)
    ELSE <<ComposeEntry(index0[d], index[i], original_shape[d], shape0[i])>>
         \o GetItemLoop(index0, original_shape, index, shape0, d + 1, i + 1)

\* __getitem__ with the new shape taken from the requested index and
\* the current shape, not from the composed index and the original shape.
GetItemShapeOfRequest(shape0, index0, original_shape, index) ==
    LET p == parse_indices(shape0, index)
        r == IF p.err THEN <<>>
             ELSE GetItemLoop(index0, original_shape, p.val, shape0, 1, 1)
        new_indices == [d \in 1..Len(r) |-> r[d].val]
    IN IF p.err
       THEN [err |-> "ShapeMismatch", index |-> index0, shape |-> shape0]
       ELSE IF \E d \in 1..Len(r) : r[d].err
       THEN [err |-> "IndexError", index |-> index0, shape |-> shape0]
       ELSE [err |-> "none", index |-> new_indices,
             shape |-> indices_shape(p.val, shape0)]

\* __getitem__ that takes slice(None) for a missing entry of the index
\* and leaves out the entries beyond the last dimension.
GetItemPadded(shape0, index0, original_shape, index) ==
    LET padded == [k \in 1..Len(shape0) |->
                      IF k <= Len(index) THEN index[k] ELSE FullSlice]
        r == GetItemLoop(index0, original_shape, padded, shape0, 1, 1)
        new_indices == [d \in 1..Len(r) |-> r[d].val]
    IN IF \E d \in 1..Len(r) : r[d].err
       THEN [err |-> "IndexError", index |-> index0, shape |-> shape0]
       ELSE [err |-> "none", index |-> new_indices,
             shape |-> indices_shape(new_indices, original_shape)]

\* The shape of pointwise indexing: the integer arrays of the index are
\* paired element by element and give one dimension between them, at
\* the position of the first.
RECURSIVE PointwiseShape(_, _, _)
PointwiseShape(indices, full_shape, seen) ==
    IF Len(indices) = 0 THEN <<>>
    ELSE (IF IsInt(Head(indices)) \/ (IsArr(Head(indices)) /\ seen)
          THEN <<>>
          ELSE <<EntrySize(Head(indices), Head(full_shape))>>)
         \o PointwiseShape(Tail(indices), Tail(full_shape),
                           seen \/ IsArr(Head(indices)))

\* __getitem__ whose new shape is that of pointwise indexing.
GetItemPointwise(shape0, index0, original_shape, index) ==
    LET p == parse_indices(shape0, index)
        r == IF p.err THEN <<>>
             ELSE GetItemLoop(index0, original_shape, p.val, shape0, 1, 1)
        new_indices == [d \in 1..Len(r) |-> r[d].val]
    IN IF p.err
       THEN [err |-> "ShapeMismatch", index |-> index0, shape |-> shape0]
       ELSE IF \E d \in 1..Len(r) : r[d].err
       THEN [err |-> "IndexError", index |-> index0, shape |-> shape0]
       ELSE [err |-> "none", index |-> new_indices,
             shape |-> PointwiseShape(new_indices, original_shape, FALSE)]

\* __getitem__: the index and the shape stored on the new array.
GetItem(shape0, index0, original_shape, index) ==
    LET p == parse_indices(shape0, index)
        r == IF p.err THEN <<>>
             ELSE GetItemLoop(index0, original_shape, p.val, shape0, 1, 1)
        new_indices == [d \in 1..Len(r) |-> r[d].val]
    IN IF p.err
       THEN [err |-> "ShapeMismatch", index |-> index0, shape |-> shape0]
       ELSE IF \E d \in 1..Len(r) : r[d].err
       THEN [err |-> "IndexError", index |-> index0, shape |-> shape0]
       ELSE [err |-> "none", index |-> new_indices,
             shape |-> indices_shape(new_indices, original_shape)]

\* An array as its "shape" component and the "index" and
\* "original_shape" entries of its _custom dictionary.
Array(shp, custom_index, custom_oshape) ==
    [shape |-> shp, cindex |-> custom_index, coshape |-> custom_oshape]

\* Reading x.index: an array without a recorded index gets one
\* slice(None) per dimension and its shape as the original shape.
ObserveIndex(x) ==
    IF IsNone(x.cindex)
    THEN Array(x.shape, Some(IndexProp(x.cindex, x.shape)), Some(x.shape))
    ELSE x

\* Reading x.original_shape: an array without a recorded original shape
\* gets its shape as the original shape.
ObserveOriginalShape(x) ==
    IF IsNone(x.coshape)
    THEN Array(x.shape, x.cindex, Some(OriginalShapeProp(x.coshape, x.shape)))
    ELSE x

\* self.copy(): a new array with the components and a _custom
\* dictionary of its own, equal to those of self.
Copy(x) == Array(x.shape, x.cindex, x.coshape)

\* The new shape and index stored on the receiver as well.
StoreOnReceiver(self, new, new_indices, new_shape) ==
    [self |-> Array(new_shape, Some(new_indices), self.coshape),
     new |-> Array(new_shape, Some(new_indices), new.coshape)]

\* The end of __getitem__: the new shape and the new index are stored
\* on the copy, which is returned.
Store(self, new, new_indices, new_shape) ==
    [self |-> self,
     new |-> Array(new_shape, Some(new_indices), new.coshape)]

(***************************************************************************)
(* CFAMixin                                                                *)
(* Dimensions and dictionary keys that Python counts from 0 are counted    *)
(* here as Python does; TLA+ sequences are indexed from 1, so dimension    *)
(* dim of the code is position dim + 1 of a sequence.                      *)
(***************************************************************************)
RECURSIVE SumSeq(_)
SumSeq(c) == IF Len(c) = 0 THEN 0 ELSE Head(c) + SumSeq(Tail(c))

\* itertools.accumulate((0,) + c)
Accumulate0(c) == [k \in 1..(Len(c) + 1) |-> SumSeq(SubSeq(c, 1, k - 1))]

\* tuple(range(n))
RangeTuple(n) == [k \in 1..n |-> k - 1]

\* itertools.product(*seqs) as the sequence of the tuples it yields: the
\* last position varies fastest.
RECURSIVE Product(_)
Product(seqs) ==
    IF Len(seqs) = 0 THEN << <<>> >>
    ELSE LET rest == Product(Tail(seqs))
             n == Len(Head(seqs))
             m == Len(rest)
         IN [k \in 1..(n * m) |->
                <<Head(seqs)[((k - 1) \div m) + 1]>> \o rest[((k - 1) % m) + 1]]

\* cf.data.utils.chunk_positions: the grid coordinate of every chunk.
chunk_positions(chunks) ==
    Product([d \in 1..Len(chunks) |-> RangeTuple(Len(chunks[d]))])

\* cf.data.utils.chunk_locations: the (start, stop) range of every chunk
\* on every dimension.
chunk_locations(chunks) ==
    Product([d \in 1..Len(chunks) |->
                [k \in 1..Len(chunks[d]) |->
                    <<Accumulate0(chunks[d])[k], Accumulate0(chunks[d])[k + 1]>>]])

\* Whether a grid coordinate is a valid index of an array of that shape.
InGrid(frag_loc, fragment_shape) ==
    \A d \in 1..Len(frag_loc) : frag_loc[d] < fragment_shape[d]

\* The dictionary built from zip(keys, values) with one descriptor each.
DictOf(keys, values) ==
    [key \in {keys[k] : k \in 1..Len(keys)} |->
        values[CHOOSE k \in 1..Len(keys) :
                  keys[k] = key /\ \A j \in (k + 1)..Len(keys) : keys[j] # key]]

\* _parse_cfa that takes the size of the first fragment along a
\* dimension for the size of the dimension.
ParseCfaShapeOfFirst(chunks, fshape, term) ==
    LET shp == [d \in 1..Len(chunks) |-> chunks[d][1]]
        positions == chunk_positions(chunks)
        locations == chunk_locations(chunks)
        descr(k) ==
            IF term
            THEN [location |-> locations[k], fill_value |-> 0,
                  format |-> "full"]
            ELSE [location |-> locations[k],
                  filename |-> <<[file |-> positions[k]]>>,
                  address |-> <<"tas">>,
                  format |-> "nc"]
    IN IF \E k \in 1..Len(positions) : ~InGrid(positions[k], fshape)
       THEN [err |-> "IndexError"]
       ELSE [err |-> "none", shape |-> shp, fragment_shape |-> fshape,
             aggregated_data |->
                 DictOf(positions, [k \in 1..Len(positions) |-> descr(k)])]

\* _parse_cfa: chunks are the compressed rows of x["location"], fshape
\* the shape of the term or file variable, term whether the fragments
\* hold a constant value. Indexing the variable with a grid coordinate
\* outside its shape raises IndexError.
ParseCfa(chunks, fshape, term) ==
    LET shp == [d \in 1..Len(chunks) |-> SumSeq(chunks[d])]
        positions == chunk_positions(chunks)
        locations == chunk_locations(chunks)
        descr(k) ==
            IF term
            THEN [location |-> locations[k], fill_value |-> 0,
                  format |-> "full"]
            ELSE [location |-> locations[k],
                  filename |-> <<[file |-> positions[k]]>>,
                  address |-> <<"tas">>,
                  format |-> "nc"]
    IN IF \E k \in 1..Len(positions) : ~InGrid(positions[k], fshape)
       THEN [err |-> "IndexError"]
       ELSE [err |-> "none", shape |-> shp, fragment_shape |-> fshape,
             aggregated_data |->
                 DictOf(positions, [k \in 1..Len(positions) |-> descr(k)])]

\* get_fragmented_dimensions, as positions counted from 1.
FragmentedDims(fragment_shape) ==
    {d \in 1..Len(fragment_shape) : fragment_shape[d] > 1}

\* One entry of a chunks specification: an integer, a string, None or
\* an explicit tuple of sizes.
ChunkInt(n) == [n |-> n]
ChunkStr(t) == [s |-> t]
ChunkNone == [none |-> TRUE]
ChunkTuple(c) == [t |-> c]

\* dask.array.core.normalize_chunks for one dimension: an explicit
\* tuple is kept (it must add up to the size), -1, None and "auto" give
\* one chunk, a size n gives chunks of n and the remainder.
NormalizeDim(c, size) ==
    IF "t" \in DOMAIN c
    THEN (IF SumSeq(c.t) = size THEN [err |-> "none", val |-> c.t]
          ELSE [err |-> "ValueError", val |-> <<>>])
    ELSE IF "n" \in DOMAIN c /\ c.n > 0 /\ size > 0
    THEN [err |-> "none",
          val |-> [k \in 1..((size + c.n - 1) \div c.n) |->
                      IF k * c.n <= size THEN c.n ELSE size - (k - 1) * c.n]]
    ELSE [err |-> "none", val |-> <<size>>]

\* The sizes of the fragments along a fragmented dimension, read from
\* the locations of the fragments (0, .., j, .., 0); a missing key raises
\* KeyError.
FragmentChunks(a, d) ==
    LET key(j) == [e \in 1..Len(a.shape) |-> IF e = d THEN j ELSE 0]
        n == a.fragment_shape[d]
    IN IF \E j \in 0..(n - 1) : key(j) \notin DOMAIN a.aggregated_data
       THEN [err |-> "KeyError", val |-> <<>>]
       ELSE [err |-> "none",
             val |-> [k \in 1..n |->
                         a.aggregated_data[key(k - 1)].location[d][2]
                         - a.aggregated_data[key(k - 1)].location[d][1]]]

\* The request for one dimension: shapes is a scalar (integer, string or
\* None), a dictionary keyed by dimension or a sequence.
RequestFor(shapes, d) ==
    IF "scalar" \in DOMAIN shapes THEN shapes.scalar
    ELSE IF "dict" \in DOMAIN shapes
    THEN (IF (d - 1) \in DOMAIN shapes.dict THEN shapes.dict[d - 1]
          ELSE ChunkStr("auto"))
    ELSE shapes.seq[d]

\* subarray_shapes with the request used on every dimension.
SubarrayShapesByRequest(a, shapes) ==
    LET ndim == Len(a.shape)
        n == [d \in 1..ndim |-> NormalizeDim(RequestFor(shapes, d), a.shape[d])]
    IN IF "seq" \in DOMAIN shapes /\ Len(shapes.seq) # ndim
       THEN [err |-> "ValueError", chunks |-> <<>>]
       ELSE IF \E d \in 1..ndim : n[d].err # "none"
       THEN [err |-> "ValueError", chunks |-> <<>>]
       ELSE [err |-> "none", chunks |-> [d \in 1..ndim |-> n[d].val]]

\* subarray_shapes: [err |-> the exception or "none", chunks |-> the
\* sizes of the subarrays along each dimension].
SubarrayShapes(a, shapes) ==
    LET ndim == Len(a.shape)
        f_dims == FragmentedDims(a.fragment_shape)
        base == [d \in 1..ndim |->
                    IF d \in f_dims THEN FragmentChunks(a, d)
                    ELSE [err |-> "none", val |-> <<>>]]
        chunks == [d \in 1..ndim |->
                      IF d \in f_dims THEN ChunkTuple(base[d].val)
                      ELSE RequestFor(shapes, d)]
        n == [d \in 1..ndim |-> NormalizeDim(chunks[d], a.shape[d])]
    IN IF \E d \in 1..ndim : base[d].err # "none"
       THEN [err |-> "KeyError", chunks |-> <<>>]
       ELSE IF "seq" \in DOMAIN shapes /\ Len(shapes.seq) # ndim
       THEN [err |-> "ValueError", chunks |-> <<>>]
       ELSE IF \E d \in 1..ndim : n[d].err # "none"
       THEN [err |-> "ValueError", chunks |-> <<>>]
       ELSE [err |-> "none", chunks |-> [d \in 1..ndim |-> n[d].val]]

\* slice(i, j)
Range(i, j) == Slice(Some(i), Some(j), None)

\* subarrays that takes every dimension to be fragmented when it
\* locates the fragment of a subarray.
SubarraysAllFragmented(a, subarray_shapes) ==
    LET ndim == Len(subarray_shapes)
        s_locations == [d \in 1..ndim |-> RangeTuple(Len(subarray_shapes[d]))]
        u_indices == [d \in 1..ndim |->
                         [k \in 1..Len(subarray_shapes[d]) |->
                             Range(Accumulate0(subarray_shapes[d])[k],
                                   Accumulate0(subarray_shapes[d])[k + 1])]]
        f_indices == [d \in 1..ndim |->
                         [k \in 1..Len(u_indices[d]) |-> FullSlice]]
    IN <<Product(u_indices), Product(subarray_shapes), Product(f_indices),
         Product(s_locations), Product(s_locations),
         Product(subarray_shapes)>>

\* subarrays that takes the index into the fragment to be the logical
\* range on every dimension.
SubarraysLogicalEverywhere(a, subarray_shapes) ==
    LET six == SubarraysAllFragmented(a, subarray_shapes)
    IN <<six[1], six[2], six[1], six[4], six[5], six[6]>>

\* subarrays whose logical ranges all start at position 0 (the running
\* totals are paired with 0 and not with the total before them).
SubarraysFromZero(a, subarray_shapes) ==
    LET ndim == Len(subarray_shapes)
        six == SubarraysAllFragmented(a, subarray_shapes)
        u_indices == [d \in 1..ndim |->
                         [k \in 1..Len(subarray_shapes[d]) |->
                             Range(0, Accumulate0(subarray_shapes[d])[k + 1])]]
    IN <<Product(u_indices), six[2], six[3], six[4], six[5], six[6]>>

\* subarrays: the six sequences of records that the six returned
\* iterators yield, in the order of the returned tuple.
Subarrays(a, subarray_shapes) ==
    LET f_dims == FragmentedDims(a.fragment_shape)
        ndim == Len(subarray_shapes)
        s_locations == [d \in 1..ndim |-> RangeTuple(Len(subarray_shapes[d]))]
        u_shapes == subarray_shapes
        f_locations == [d \in 1..ndim |->
                           IF d \in f_dims
                           THEN RangeTuple(Len(subarray_shapes[d]))
                           ELSE [k \in 1..Len(subarray_shapes[d]) |-> 0]]
        u_indices == [d \in 1..ndim |->
                         [k \in 1..Len(subarray_shapes[d]) |->
                             Range(Accumulate0(subarray_shapes[d])[k],
                                   Accumulate0(subarray_shapes[d])[k + 1])]]
        f_indices == [d \in 1..ndim |->
                         IF d \in f_dims
                         THEN [k \in 1..Len(u_indices[d]) |-> FullSlice]
                         ELSE u_indices[d]]
        f_shapes == [d \in 1..Min2(ndim, Len(a.shape)) |->
                        IF d \in f_dims THEN u_shapes[d]
                        ELSE [k \in 1..Len(u_shapes[d]) |-> a.shape[d]]]
    IN <<Product(u_indices), Product(u_shapes), Product(f_indices),
         Product(s_locations), Product(f_locations), Product(f_shapes)>>

\* An iterator over a sequence of records that can be looped over again
\* from the start (a list, not an itertools.product object).
RestartablePass(it) ==
    [out |-> it.items, it |-> [it EXCEPT !.pos = Len(it.items)]]

\* One loop over an itertools.product iterator: it yields the records it
\* has not yielded yet, and is exhausted afterwards.
IterPass(it) ==
    [out |-> SubSeq(it.items, it.pos + 1, Len(it.items)),
     it |-> [it EXCEPT !.pos = Len(it.items)]]

\* NetCDFFragmentArray.__init__: the handle of a netCDF fragment. There
\* is no mask parameter, and the mask component is always set to True.
NetCDFFragmentArrayInit(kwargs) ==
    IF "mask" \in DOMAIN kwargs
    THEN [err |-> "TypeError"]
    ELSE [err |-> "none",
          handle |-> [cls |-> "NetCDFFragmentArray",
                      filename |-> kwargs.filename,
                      address |-> kwargs.address,
                      shape |-> kwargs.shape,
                      storage_options |-> IF "storage_options" \in DOMAIN kwargs
                                          THEN Some(kwargs.storage_options)
                                          ELSE None,
                      mask |-> TRUE]]

\* FullFragmentArray(...): the handle of a constant-valued fragment.
FullFragmentArrayInit(kwargs) ==
    [err |-> "none",
     handle |-> [cls |-> "FullFragmentArray",
                 fill_value |-> kwargs.fill_value,
                 shape |-> kwargs.shape]]

\* The body of the loop of to_dask_array for one subarray: the handle
\* built from the descriptor at fragment_location, or the exception.
\* kwargs["address"] == "nc" compares a tuple of addresses with a string.
FragmentFor(a, fragment_location, fragment_shape, mask, storage_options) ==
    LET kwargs == a.aggregated_data[fragment_location]
        fragment_format == kwargs.format
        hasSO == ~IsNone(storage_options)
        addressIsNc == FALSE
    IN IF fragment_location \notin DOMAIN a.aggregated_data
       THEN [err |-> "KeyError"]
       ELSE IF fragment_format \notin {"nc", "um", "full"}
       THEN [err |-> "ValueError"]
       ELSE IF hasSO /\ "address" \notin DOMAIN kwargs
       THEN [err |-> "KeyError"]
       ELSE IF fragment_format = "nc"
       THEN NetCDFFragmentArrayInit(
                [filename |-> kwargs.filename, address |-> kwargs.address,
                 shape |-> fragment_shape]
                @@ (IF hasSO /\ addressIsNc
                    THEN [storage_options |-> storage_options[1]] ELSE <<>>)
                @@ (IF mask THEN <<>> ELSE [mask |-> FALSE]))
       ELSE FullFragmentArrayInit(
                [fill_value |-> kwargs.fill_value, shape |-> fragment_shape])

\* tokenize(fragment_array): the token of a fragment array is a digest of what
\* the array is made of, so that arrays made of the same things have the
\* same token and others do not; it is written as those contents.
tokenize(fragment_array) == fragment_array

\* to_dask_array that stores the handle of a subarray under a key made
\* of the chunk location of the subarray.
ToDaskArrayKeyPerTask(a, chunks_req, mask, storage_options) ==
    LET p == SubarrayShapes(a, chunks_req)
        six == Subarrays(a, p.chunks)
        n == Len(six[1])
        frag(k) == FragmentFor(a, six[5][k], six[6][k], mask, storage_options)
        key(k) == frag(k).handle @@ [chunk_location |-> six[4][k]]
    IN IF p.err # "none"
       THEN [err |-> p.err, chunks |-> <<>>, tasks |-> <<>>, handles |-> {}]
       ELSE IF \E k \in 1..n : frag(k).err # "none"
       THEN [err |-> "TypeError", chunks |-> <<>>, tasks |-> <<>>,
             handles |-> {}]
       ELSE [err |-> "none",
             chunks |-> p.chunks,
             tasks |-> [loc \in {six[4][k] : k \in 1..n} |->
                          LET k == CHOOSE j \in 1..n : six[4][j] = loc
                          IN [key |-> key(k), f_indices |-> six[3][k]]],
             handles |-> {key(k) : k \in 1..n}]

\* to_dask_array that makes no task for a subarray without elements.
ToDaskArraySkipEmpty(a, chunks_req, mask, storage_options) ==
    LET p == SubarrayShapes(a, chunks_req)
        six == Subarrays(a, p.chunks)
        kept == {k \in 1..Len(six[1]) :
                    \A d \in 1..Len(six[2][k]) : six[2][k][d] > 0}
        frag(k) == FragmentFor(a, six[5][k], six[6][k], mask, storage_options)
    IN IF p.err # "none"
       THEN [err |-> p.err, chunks |-> <<>>, tasks |-> <<>>, handles |-> {}]
       ELSE IF \E k \in kept : frag(k).err # "none"
       THEN [err |-> "TypeError", chunks |-> <<>>, tasks |-> <<>>,
             handles |-> {}]
       ELSE [err |-> "none",
             chunks |-> p.chunks,
             tasks |-> [loc \in {six[4][k] : k \in kept} |->
                          LET k == CHOOSE j \in kept : six[4][j] = loc
                          IN [key |-> frag(k).handle, f_indices |-> six[3][k]]],
             handles |-> {frag(k).handle : k \in kept}]

\* to_dask_array: [err |-> the exception or "none", chunks |-> the chunks
\* of the dask array, tasks |-> for the chunk location of every subarray
\* the key of its handle and the index into it, handles |-> the handles
\* stored in the graph under their keys]. A handle's key is the token of
\* its contents.
ToDaskArray(a, chunks_req, mask, storage_options) ==
    LET p == SubarrayShapes(a, chunks_req)
        six == Subarrays(a, p.chunks)
        n == Len(six[1])
        frag(k) == FragmentFor(a, six[5][k], six[6][k], mask, storage_options)
    IN IF p.err # "none"
       THEN [err |-> p.err, chunks |-> <<>>, tasks |-> <<>>, handles |-> {}]
       ELSE IF \E k \in 1..n : frag(k).err # "none"
       THEN [err |-> frag(CHOOSE k \in 1..n :
                              /\ frag(k).err # "none"
                              /\ \A j \in 1..(k - 1) : frag(j).err = "none").err,
             chunks |-> <<>>, tasks |-> <<>>, handles |-> {}]
       ELSE [err |-> "none",
             chunks |-> p.chunks,
             tasks |-> [loc \in {six[4][k] : k \in 1..n} |->
                          LET k == CHOOSE j \in 1..n :
                                     /\ six[4][j] = loc
                                     /\ \A i \in (j + 1)..n : six[4][i] # loc
                          IN [key |-> tokenize(frag(k).handle),
                              f_indices |-> six[3][k]]],
             handles |-> {tokenize(frag(k).handle) : k \in 1..n}]

\* get_aggregated_data that copies the mapping but not the descriptors
\* in it.
GetAggregatedDataShallow(aggregated_data, copy) ==
    [value |-> aggregated_data,
     same_mapping |-> ~copy,
     same_descriptors |-> TRUE]

\* get_aggregated_data: the mapping returned, and whether the mapping
\* and the descriptors in it are the objects that the array holds
\* (copy=False) or copies of them (deepcopy).
GetAggregatedData(aggregated_data, copy) ==
    [value |-> aggregated_data,
     same_mapping |-> ~copy,
     same_descriptors |-> ~copy]

\* del aggregated_data[key]
PopKey(aggregated_data, key) ==
    [k \in DOMAIN aggregated_data \ {key} |-> aggregated_data[k]]

\* aggregated_data[key][field] = value, for the keys that are present.
SetField(aggregated_data, key, field, value) ==
    [k \in DOMAIN aggregated_data |->
        IF k = key THEN [aggregated_data[k] EXCEPT ![field] = value]
        ELSE aggregated_data[k]]

(***************************************************************************)
(* SpecCFA: one aggregated array is built, and then either planned and     *)
(* enumerated or turned into a dask graph.                                 *)
(***************************************************************************)
\* The fragment sizes along the first dimension.
RichChunks ==
    UNION {[1..k -> 0..MaxExtent] : k \in 1..MaxFrags}
\* The fragment sizes along the second dimension.
LightChunks == {<<2>>, <<0>>, <<1, 1>>}

\* The shapes of the term or file variable that are tried for fragment
\* sizes chunks: the one that matches, and one more or one fewer
\* fragment along the first dimension.
FShapes(chunks) ==
    {<<Len(chunks[1]) + e, Len(chunks[2])>> : e \in {0 - 1, 0, 1}}

\* The chunks specifications that are requested.
Requests ==
    {[scalar |-> c] : c \in {ChunkInt(0 - 1), ChunkInt(1), ChunkStr("auto"),
                             ChunkNone}}
    \cup {[dict |-> f] : f \in {<<>>, 0 :> ChunkInt(1), 1 :> ChunkInt(1),
                                (0 :> ChunkInt(2)) @@ (1 :> ChunkNone)}}
    \cup {[seq |-> q] : q \in {<<ChunkInt(1), ChunkInt(1)>>,
                               <<ChunkNone, ChunkInt(2)>>,
                               <<ChunkTuple(<<1, 1>>), ChunkStr("auto")>>,
                               <<ChunkInt(1)>>}}

InitCFA ==
    /\ cfa = None /\ plan = None /\ iters = None
    /\ passes = None /\ yielded = None /\ graph = None /\ got = None
    /\ shape = <<>> /\ cindex = None /\ coshape = None /\ err = "none"
    /\ depth = 0 /\ last = <<>> /\ expect = <<>>
    /\ older = None /\ call = None /\ request = <<>>
    /\ fragment = None /\ resolved = None
    /\ NoReaders /\ NoChunkCall

\* The aggregated array is initialised from a parsed CFA variable.
ParseCfaStep ==
    /\ cfa = None
    /\ \E c1 \in RichChunks, c2 \in LightChunks, term \in BOOLEAN :
          \E fshape \in FShapes(<<c1, c2>>) :
             cfa' = Some(ParseCfa(<<c1, c2>>, fshape, term))
    /\ UNCHANGED <<plan, iters, passes, yielded, graph, got>>
    /\ UNCHANGED indexVars
    /\ UNCHANGED fragVars
    /\ UNCHANGED lockVars
    /\ UNCHANGED activeVars

Built == ~IsNone(cfa) /\ cfa[1].err = "none"

\* plan = a.subarray_shapes(shapes)
SubarrayShapesStep ==
    /\ Built /\ plan = None /\ graph = None
    /\ \E shapes \in Requests :
          plan' = Some([shapes |-> shapes] @@ SubarrayShapes(cfa[1], shapes))
    /\ UNCHANGED <<cfa, iters, passes, yielded, graph, got>>
    /\ UNCHANGED indexVars
    /\ UNCHANGED fragVars
    /\ UNCHANGED lockVars
    /\ UNCHANGED activeVars

\* iters = a.subarrays(plan)
SubarraysStep ==
    /\ Built /\ ~IsNone(plan) /\ plan[1].err = "none" /\ iters = None
    /\ iters' = Some([k \in 1..6 |->
                         [items |-> Subarrays(cfa[1], plan[1].chunks)[k],
                          pos |-> 0]])
    /\ UNCHANGED <<cfa, plan, passes, yielded, graph, got>>
    /\ UNCHANGED indexVars
    /\ UNCHANGED fragVars
    /\ UNCHANGED lockVars
    /\ UNCHANGED activeVars

\* for record in iters[k]: one loop over one of the six iterators; the
\* six are independent objects, and the model follows one of them.
IterateStep ==
    /\ ~IsNone(iters)
    /\ \E k \in 1..6 :
          /\ IF IsNone(passes) THEN TRUE
             ELSE passes[1].k = k /\ passes[1].n < MaxPasses
          /\ \E r \in {IterPass(iters[1][k])} :
                /\ yielded' = Some(r.out)
                /\ iters' = Some([iters[1] EXCEPT ![k] = r.it])
          /\ passes' = Some([k |-> k,
                             n |-> IF IsNone(passes) THEN 1 ELSE passes[1].n + 1])
    /\ UNCHANGED <<cfa, plan, graph, got>>
    /\ UNCHANGED indexVars
    /\ UNCHANGED fragVars
    /\ UNCHANGED lockVars
    /\ UNCHANGED activeVars

\* graph = a.to_dask_array(chunks); get_mask() and get_storage_options()
\* are read during the call.
ToDaskArrayStep ==
    /\ Built /\ plan = None /\ graph = None
    /\ \E chunks_req \in Requests, mask \in BOOLEAN,
          storage_options \in {None, Some("anon")} :
          graph' = Some([chunks_req |-> chunks_req, mask |-> mask,
                         storage_options |-> storage_options]
                        @@ ToDaskArray(cfa[1], chunks_req, mask, storage_options))
    /\ UNCHANGED <<cfa, plan, iters, passes, yielded, got>>
    /\ UNCHANGED indexVars
    /\ UNCHANGED fragVars
    /\ UNCHANGED lockVars
    /\ UNCHANGED activeVars

NextCFA ==
    \/ ParseCfaStep
    \/ SubarrayShapesStep
    \/ SubarraysStep
    \/ IterateStep
    \/ ToDaskArrayStep

SpecCFA == InitCFA /\ [][NextCFA]_vars

(***************************************************************************)
(* SpecAgg: the aggregated data of one array is read by a caller, who      *)
(* changes what was returned, before the array is planned or turned into   *)
(* a dask graph.                                                           *)
(***************************************************************************)
\* The values that a caller writes into a descriptor.
Writes ==
    [location |-> <<<<0, MaxExtent + 1>>, <<0, 1>>>>,
     filename |-> <<[file |-> <<MaxFrags, 0>>]>>,
     address |-> <<"pr">>]

\* The grid coordinate of the first fragment, when the mapping holds it:
\* the entry that the caller changes.
FirstKey(aggregated_data) ==
    {key \in DOMAIN aggregated_data : \A d \in 1..Len(key) : key[d] = 0}

\* d = a.get_aggregated_data(copy)
GetAggregatedDataStep ==
    /\ Built /\ IsNone(got) /\ plan = None /\ graph = None
    /\ \E copy \in BOOLEAN :
          got' = Some([copy |-> copy, mutated |-> FALSE,
                       stored0 |-> cfa[1].aggregated_data]
                      @@ GetAggregatedData(cfa[1].aggregated_data, copy))
    /\ UNCHANGED <<cfa, plan, iters, passes, yielded, graph>>
    /\ UNCHANGED indexVars
    /\ UNCHANGED fragVars
    /\ UNCHANGED lockVars
    /\ UNCHANGED activeVars

\* del d[key]: the caller removes an entry of the returned mapping.
MutateMappingStep ==
    /\ Built /\ ~IsNone(got) /\ plan = None /\ graph = None
    /\ ~got[1].mutated
    /\ \E key \in FirstKey(got[1].value) :
          /\ got' = Some([got[1] EXCEPT !.value = PopKey(@, key),
                                        !.mutated = TRUE])
          /\ cfa' = IF got[1].same_mapping
                    THEN Some([cfa[1] EXCEPT
                                  !.aggregated_data = PopKey(@, key)])
                    ELSE cfa
    /\ UNCHANGED <<plan, iters, passes, yielded, graph>>
    /\ UNCHANGED indexVars
    /\ UNCHANGED fragVars
    /\ UNCHANGED lockVars
    /\ UNCHANGED activeVars

\* d[key][field] = value: the caller changes a descriptor of the
\* returned mapping in place.
MutateDescriptorStep ==
    /\ Built /\ ~IsNone(got) /\ plan = None /\ graph = None
    /\ ~got[1].mutated
    /\ \E key \in FirstKey(got[1].value) :
          \E field \in DOMAIN Writes \cap DOMAIN got[1].value[key] :
             /\ got' = Some([got[1] EXCEPT
                               !.value = SetField(@, key, field, Writes[field]),
                               !.mutated = TRUE])
             /\ cfa' = IF got[1].same_descriptors
                       THEN Some([cfa[1] EXCEPT
                                     !.aggregated_data =
                                         SetField(@, key, field, Writes[field])])
                       ELSE cfa
    /\ UNCHANGED <<plan, iters, passes, yielded, graph>>
    /\ UNCHANGED indexVars
    /\ UNCHANGED fragVars
    /\ UNCHANGED lockVars
    /\ UNCHANGED activeVars

NextAgg ==
    \/ ParseCfaStep
    \/ GetAggregatedDataStep
    \/ MutateMappingStep
    \/ MutateDescriptorStep
    \/ SubarrayShapesStep
    \/ SubarraysStep
    \/ ToDaskArrayStep

SpecAgg == InitCFA /\ [][NextAgg]_vars

(***************************************************************************)
(* SpecIndex: chains of subspaces of one array.                            *)
(***************************************************************************)
\* The entry of the new index that original dimension d is paired with:
\* the dimensions removed by an integer take none.
CurPos(index0, d) == Cardinality({e \in 1..d : ~IsInt(index0[e])})

OptInts(n) == {None} \cup {Some(k) : k \in {0 - n, 0 - 1} \cup (0..n)}
StepSet == {None, Some(0 - 2), Some(0 - 1), Some(1), Some(2)}
SeqsUpTo(S, n) == UNION {[1..k -> S] : k \in 0..n}

\* The entries requested on the first dimension, for its current size:
\* slices of either direction that reach past both ends, integers and
\* integer arrays (one of each out of range) and boolean masks.
RichEntries(size0) ==
    {Slice(a, b, c) : a \in OptInts(size0 + 1), b \in OptInts(size0 + 1),
                      c \in StepSet}
    \cup {IntIdx(n) : n \in (0 - size0 - 1)..size0}
    \cup {ArrIdx(s) : s \in SeqsUpTo(IF size0 = 0 THEN {}
                                      ELSE {0 - size0, 0 - 1}
                                           \cup (0..(size0 - 1)), MaxArr)}
    \cup {ArrIdx(<<size0>>)}
    \cup {MaskIdx(s) : s \in [1..size0 -> BOOLEAN]}

\* The entries requested on the second dimension.
LightEntries(size0) ==
    {FullSlice, Slice(None, None, Some(0 - 1)), IntIdx(0)}
    \cup (IF size0 > 0 THEN {ArrIdx(<<size0 - 1, 0>>), ArrIdx(<<0>>)} ELSE {})

\* The indices requested of an array with the given index and shape.
IndexChoices(index0, shape0) ==
    LET first == ~IsInt(index0[1])
        second == ~IsInt(index0[2])
    IN IF first /\ second
       THEN {<<r, FullSlice>> : r \in RichEntries(shape0[1])}
            \cup {<<l, m>> : l \in LightEntries(shape0[1]),
                             m \in LightEntries(shape0[2])}
            \cup {<<>>, <<FullSlice, FullSlice, FullSlice>>}
       ELSE IF first THEN {<<r>> : r \in RichEntries(shape0[1])}
       ELSE IF second THEN {<<l>> : l \in LightEntries(shape0[1])}
       ELSE {<<>>, <<FullSlice>>}

\* The entry of the requested index at position i; a position past its
\* end holds no request.
EntryAt(index, i) == IF i \in DOMAIN index THEN index[i] ELSE FullSlice

\* What the call paired on original dimension d: the kind of the
\* receiver's entry, the kind of the new entry, whether the new entry
\* selects nothing of the current dimension, and the number of elements
\* of a new entry that is an integer array.
Kind(e) == IF IsSlice(e) THEN "slice" ELSE IF IsInt(e) THEN "int"
           ELSE IF IsArr(e) THEN "arr" ELSE "mask"
Paired(index0, index, shape0, d) ==
    IF IsInt(index0[d])
    THEN [k0 |-> "int", k1 |-> "none", empty1 |-> FALSE, len1 |-> 0]
    ELSE LET ind1 == EntryAt(index, CurPos(index0, d))
             size0 == shape0[CurPos(index0, d)]
         IN [k0 |-> Kind(index0[d]),
             k1 |-> IF IsSlice(ind1) /\ ind1 = FullSlice THEN "full"
                    ELSE Kind(ind1),
             empty1 |-> IsSlice(ind1)
                        /\ Len(Arange(SliceIndices(ind1, size0))) = 0,
             len1 |-> IF IsArr(ind1) THEN Len(ind1.a) ELSE 0]

\* The positions of original dimension d selected by the receiver's
\* index followed by the new index.
Expected(index0, original_shape, index, d) ==
    LET p0 == Positions(index0[d], original_shape[d])
    IN IF IsInt(index0[d]) THEN p0
       ELSE Positions(NumpyTake(p0, EntryAt(index, CurPos(index0, d))).val, 0)

InitIndex ==
    /\ shape \in {<<n, Dim2Size>> : n \in 0..MaxSize}
    /\ cindex = None
    /\ coshape = None
    /\ err = "none"
    /\ depth = 0
    /\ last = <<>>
    /\ expect = <<>>
    /\ older = None
    /\ call = None
    /\ request = <<>>
    /\ cfa = None /\ plan = None /\ iters = None
    /\ passes = None /\ yielded = None /\ graph = None /\ got = None
    /\ fragment = None /\ resolved = None
    /\ NoReaders /\ NoChunkCall

\* The array that the next subspace is taken of, and what a caller
\* observes of an array.
Self == Array(shape, cindex, coshape)
Observables(x) ==
    [shape |-> x.shape,
     index |-> IndexProp(x.cindex, x.shape),
     original_shape |-> OriginalShapeProp(x.coshape, x.shape)]

\* The kinds of the receiver's entries that the call paired with an
\* integer, or an integer array with an element, outside the range of
\* the current dimension.
OutOfRangeKinds(index0, index, shape0) ==
    IF Len(index) # Len(shape0) THEN {}
    ELSE {Kind(index0[d]) :
            d \in {e \in 1..Len(index0) :
                     /\ ~IsInt(index0[e])
                     /\ LET ind1 == index[CurPos(index0, e)]
                            size0 == shape0[CurPos(index0, e)]
                        IN \/ IsInt(ind1) /\ ~InRange(ind1.i, size0)
                           \/ /\ IsArr(ind1)
                              /\ \E k \in 1..Len(ind1.a) :
                                    ~InRange(ind1.a[k], size0)}}

\* What a returning call did with the receiver's index: whether every
\* integer entry of index0 is the entry of new_indices at the same
\* position, and whether every other entry of new_indices is made from
\* the entry of index0 at its position and the entry of the new index
\* that is next in order among the dimensions that still exist.
Carried(index0, new_indices) ==
    /\ Len(new_indices) = Len(index0)
    /\ \A d \in 1..Len(index0) :
          IsInt(index0[d]) => new_indices[d] = index0[d]
InOrder(index0, original_shape, index, shape0, new_indices) ==
    /\ Len(new_indices) = Len(index0)
    /\ \A d \in 1..Len(index0) :
          ~IsInt(index0[d]) =>
              new_indices[d]
                  = ComposeEntry(index0[d], EntryAt(index, CurPos(index0, d)),
                                 original_shape[d],
                                 shape0[CurPos(index0, d)]).val

\* y = x[index], and y becomes the array of the next call. Reading
\* x.index and x.original_shape stores them on x when they were not set.
Subspace(index) ==
    LET self == ObserveOriginalShape(ObserveIndex(Self))
        shape0 == self.shape
        index0 == self.cindex[1]
        original_shape == self.coshape[1]
    IN \E r \in {GetItem(shape0, index0, original_shape, index)} :
       /\ err' = r.err
       /\ IF r.err = "none"
          THEN \E st \in {Store(self, Copy(self), r.index, r.shape)} :
               /\ shape' = st.new.shape
               /\ cindex' = st.new.cindex
               /\ coshape' = st.new.coshape
               /\ older' = IF IsNone(older)
                           THEN Some([x |-> st.self,
                                      before |-> Observables(Self)])
                           ELSE older
               /\ call' = Some([nindex |-> Len(index), ndim |-> Len(shape0),
                                oor |-> OutOfRangeKinds(index0, index, shape0),
                                same |-> Observables(st.self)
                                             = Observables(Self),
                                carried |-> Carried(index0, r.index),
                                inorder |-> InOrder(index0, original_shape,
                                                    index, shape0, r.index),
                                depth0 |-> depth])
               /\ depth' = depth + 1
               /\ last' = [d \in 1..Len(index0) |->
                              Paired(index0, index, shape0, d)]
               /\ expect' = [d \in 1..Len(index0) |->
                              Expected(index0, original_shape, index, d)]
          ELSE /\ shape' = self.shape
               /\ cindex' = self.cindex
               /\ coshape' = self.coshape
               /\ call' = Some([nindex |-> Len(index), ndim |-> Len(shape0),
                                oor |-> OutOfRangeKinds(index0, index, shape0),
                                same |-> Observables(self) = Observables(Self),
                                carried |-> TRUE, inorder |-> TRUE,
                                depth0 |-> depth])
               /\ UNCHANGED <<depth, last, expect, older>>

\* A chain of subspaces ends at the first call that raises.
GetItemStep ==
    /\ depth < MaxDepth
    /\ err = "none"
    /\ \E index \in IndexChoices(IndexProp(cindex, shape), shape) :
          Subspace(index)
    /\ UNCHANGED request
    /\ UNCHANGED cfaVars
    /\ UNCHANGED fragVars
    /\ UNCHANGED lockVars
    /\ UNCHANGED activeVars

\* x.index is read on an array without a recorded index.
ObserveIndexStep ==
    /\ IsNone(cindex)
    /\ cindex' = ObserveIndex(Self).cindex
    /\ coshape' = ObserveIndex(Self).coshape
    /\ UNCHANGED <<shape, err, depth, last, expect, older, call, request>>
    /\ UNCHANGED cfaVars
    /\ UNCHANGED fragVars
    /\ UNCHANGED lockVars
    /\ UNCHANGED activeVars

\* x.original_shape is read on an array without a recorded original
\* shape.
ObserveOriginalShapeStep ==
    /\ IsNone(coshape)
    /\ coshape' = ObserveOriginalShape(Self).coshape
    /\ UNCHANGED <<shape, cindex, err, depth, last, expect, older, call,
                   request>>
    /\ UNCHANGED cfaVars
    /\ UNCHANGED fragVars
    /\ UNCHANGED lockVars
    /\ UNCHANGED activeVars

NextIndex ==
    \/ GetItemStep
    \/ ObserveIndexStep
    \/ ObserveOriginalShapeStep

SpecIndex == InitIndex /\ [][NextIndex]_vars

(***************************************************************************)
(* SpecDoc: the example of the docstrings of __getitem__ and index, an     *)
(* array of shape (12, 145, 192) that is subspaced twice, among like       *)
(* requests.                                                               *)
(***************************************************************************)
DocShape == <<12, 145, 192>>
\* [8:9, 10:20:3, [15, 1, 4, 12]]
DocFirst ==
    <<Slice(Some(8), Some(9), None), Slice(Some(10), Some(20), Some(3)),
      ArrIdx(<<15, 1, 4, 12>>)>>
\* [[0], [True, False, True], ::-2]
DocSecond ==
    <<ArrIdx(<<0>>), MaskIdx(<<TRUE, FALSE, TRUE>>),
      Slice(None, None, Some(0 - 2))>>

\* The first requests: a:a+1 on the first dimension, 10:20:s on the
\* second and an integer array on the third.
DocFirstIndices ==
    {<<Slice(Some(a), Some(a + 1), None), Slice(Some(10), Some(20), Some(s)),
       ArrIdx(q)>> :
        a \in 0..(DocShape[1] - 1), s \in 1..5,
        q \in {<<15, 1, 4, 12>>, <<0>>}}
\* The second requests: [0], a boolean mask of three or four elements,
\* and ::-2.
DocSecondIndices ==
    {<<ArrIdx(<<0>>), MaskIdx(mk), Slice(None, None, Some(0 - 2))>> :
        mk \in [1..3 -> BOOLEAN] \cup [1..4 -> BOOLEAN]}

InitDoc ==
    /\ shape = DocShape
    /\ cindex = None
    /\ coshape = None
    /\ err = "none"
    /\ depth = 0
    /\ last = <<>>
    /\ expect = <<>>
    /\ older = None
    /\ call = None
    /\ request = <<>>
    /\ cfa = None /\ plan = None /\ iters = None
    /\ passes = None /\ yielded = None /\ graph = None /\ got = None
    /\ fragment = None /\ resolved = None
    /\ NoReaders /\ NoChunkCall

\* x = x[index] on the array as constructed.
DocFirstStep ==
    /\ depth = 0 /\ request = <<>>
    /\ \E index \in DocFirstIndices :
          /\ Subspace(index)
          /\ request' = <<index>>
    /\ UNCHANGED cfaVars
    /\ UNCHANGED fragVars
    /\ UNCHANGED lockVars
    /\ UNCHANGED activeVars

\* x = x[index] on the array that the first subspace returned.
DocSecondStep ==
    /\ depth = 1 /\ Len(request) = 1 /\ err = "none"
    /\ \E index \in DocSecondIndices :
          /\ Subspace(index)
          /\ request' = Append(request, index)
    /\ UNCHANGED cfaVars
    /\ UNCHANGED fragVars
    /\ UNCHANGED lockVars
    /\ UNCHANGED activeVars

NextDoc ==
    \/ DocFirstStep
    \/ DocSecondStep

SpecDoc == InitDoc /\ [][NextDoc]_vars

(***************************************************************************)
(* NetCDFFragmentArray.__getitem__                                         *)
(***************************************************************************)
\* A file name is written as its URL scheme and the rest of it, which is
\* what urlparse(filename).scheme reads.
FileName(scheme, rest) == [scheme |-> scheme, rest |-> rest]
UrlScheme(filename) == filename.scheme

\* zip(filenames, addresses) in reverse order.
CandidatesReversed(filenames, addresses) ==
    LET n == Min2(Len(filenames), Len(addresses))
    IN [k \in 1..n |-> <<filenames[n + 1 - k], addresses[n + 1 - k]>>]

\* zip(self.get_filenames(), self.get_addresses())
Candidates(filenames, addresses) ==
    [k \in 1..Min2(Len(filenames), Len(addresses)) |->
        <<filenames[k], addresses[k]>>]

\* A try statement that passes on every exception.
OnOutcomePassAll(outcome, filename, address) ==
    IF outcome = "ok"
    THEN [do |-> "return",
          result |-> [kind |-> "data", filename |-> filename,
                      address |-> address]]
    ELSE [do |-> "continue"]

\* The try statement around fragment[indices]: outcome is "ok" or the
\* exception that reading the candidate raises.
OnOutcome(outcome, filename, address) ==
    IF outcome = "ok"
    THEN [do |-> "return",
          result |-> [kind |-> "data", filename |-> filename,
                      address |-> address]]
    ELSE IF outcome = "FileNotFoundError"
    THEN [do |-> "continue"]
    ELSE IF outcome = "RuntimeError"
    THEN [do |-> "raise",
          result |-> [kind |-> "RuntimeError", names |-> <<filename>>]]
    ELSE [do |-> "raise", result |-> [kind |-> outcome, names |-> <<>>]]

\* The error after the loop: it names filenames[0] when there is one
\* file name and all of them otherwise.
NoSuchFragment(filenames) ==
    [kind |-> "FileNotFoundError",
     names |-> IF Len(filenames) = 1 THEN <<filenames[1]>> ELSE filenames]

\* The loop over the candidates from the k-th on. so is whether kwargs
\* holds storage_options, attempts the fragment arrays created and read
\* so far.
RECURSIVE ResolveLoop(_, _, _, _, _, _)
ResolveLoop(filenames, cands, outcomes, k, so, attempts) ==
    IF k > Len(cands)
    THEN [attempts |-> attempts, result |-> NoSuchFragment(filenames)]
    ELSE LET filename == cands[k][1]
             address == cands[k][2]
             s3 == UrlScheme(filename) = "s3"
             so2 == so \/ s3
             att == Append(attempts,
                           [filename |-> filename, address |-> address,
                            cls |-> IF s3 THEN "H5netcdfFragmentArray"
                                    ELSE "NetCDF4FragmentArray",
                            storage_options |-> so2])
             o == OnOutcome(outcomes[k], filename, address)
         IN IF o.do = "continue"
            THEN ResolveLoop(filenames, cands, outcomes, k + 1, so2, att)
            ELSE [attempts |-> att, result |-> o.result]

\* __getitem__: outcomes[k] is what reading the k-th listed file does.
FragmentGetItem(filenames, addresses, outcomes) ==
    ResolveLoop(filenames, Candidates(filenames, addresses), outcomes,
                1, FALSE, <<>>)

(***************************************************************************)
(* SpecFrag: one fragment with its candidate files is read.                *)
(***************************************************************************)
Files == {FileName("", "a.nc"), FileName("", "b.nc"), FileName("s3", "c.nc")}
Outcomes == {"ok", "FileNotFoundError", "RuntimeError", "OSError"}

\* The fragment after construction: the filename and address components
\* are set independently of each other.
InitFrag ==
    /\ \E n \in 1..MaxCandidates, m \in 1..MaxCandidates :
          \E f \in [1..n -> Files] :
             fragment = Some([filenames |-> f,
                              addresses |-> [k \in 1..m |-> "tas"]])
    /\ resolved = None
    /\ NoReaders /\ NoChunkCall
    /\ cfa = None /\ plan = None /\ iters = None
    /\ passes = None /\ yielded = None /\ graph = None /\ got = None
    /\ shape = <<>> /\ cindex = None /\ coshape = None /\ err = "none"
    /\ depth = 0 /\ last = <<>> /\ expect = <<>>
    /\ older = None /\ call = None /\ request = <<>>

\* fragment[indices]
FragmentGetItemStep ==
    /\ resolved = None
    /\ \E outcomes \in [1..Len(fragment[1].filenames) -> Outcomes] :
          resolved' = Some([outcomes |-> outcomes]
                           @@ FragmentGetItem(fragment[1].filenames,
                                              fragment[1].addresses, outcomes))
    /\ UNCHANGED fragment
    /\ UNCHANGED indexVars
    /\ UNCHANGED cfaVars
    /\ UNCHANGED lockVars
    /\ UNCHANGED activeVars

NextFrag == FragmentGetItemStep

SpecFrag == InitFrag /\ [][NextFrag]_vars

(***************************************************************************)
(* NetCDFArray._dask_lock                                                  *)
(***************************************************************************)
\* dask.utils.SerializableLock(token): the lock that the class-level
\* registry holds for the token, or a new one that is entered in the
\* registry. locks is the registry, made the number of locks created.
SerializableLock(token, registry, n) ==
    IF token \in DOMAIN registry
    THEN [lock |-> registry[token], locks |-> registry, made |-> n]
    ELSE [lock |-> n + 1, locks |-> registry @@ (token :> (n + 1)),
          made |-> n + 1]

\* _dask_lock that makes a lock without a token: a new lock for every
\* array instance.
DaskLockUnkeyed(filename, registry, n) ==
    IF IsNone(filename)
    THEN [lock |-> 0, locks |-> registry, made |-> n]
    ELSE [lock |-> n + 1, locks |-> registry, made |-> n + 1]

\* The _dask_lock property: filename is self.get_filename(None). The
\* value False is written as the lock 0.
DaskLock(filename, registry, n) ==
    IF IsNone(filename)
    THEN [lock |-> 0, locks |-> registry, made |-> n]
    ELSE SerializableLock(filename[1], registry, n)

(***************************************************************************)
(* SpecLock: tasks read through array instances at the same time; each     *)
(* takes the _dask_lock of its instance, acquires it when it is a lock,    *)
(* reads, and releases it.                                                 *)
(***************************************************************************)
Readers == 1..MaxReaders
LockFiles == {"a.nc", "b.nc"}

InitLock ==
    /\ instance \in [Readers -> {None} \cup {Some(f) : f \in LockFiles}]
    /\ locks = <<>>
    /\ made = 0
    /\ obtained = [r \in Readers |-> None]
    /\ pc = [r \in Readers |-> "start"]
    /\ chunk_call = None /\ chunk_out = None
    /\ cfa = None /\ plan = None /\ iters = None
    /\ passes = None /\ yielded = None /\ graph = None /\ got = None
    /\ shape = <<>> /\ cindex = None /\ coshape = None /\ err = "none"
    /\ depth = 0 /\ last = <<>> /\ expect = <<>>
    /\ older = None /\ call = None /\ request = <<>>
    /\ fragment = None /\ resolved = None

\* The readers that hold a reference to the lock l.
Referring(l) ==
    {r \in Readers : pc[r] \in {"ready", "reading"} /\ obtained[r] = Some(l)}

\* lock = array._dask_lock
DaskLockStep(r) ==
    /\ pc[r] = "start"
    /\ \E d \in {DaskLock(instance[r], locks, made)} :
          /\ obtained' = [obtained EXCEPT ![r] = Some(d.lock)]
          /\ locks' = d.locks
          /\ made' = d.made
    /\ pc' = [pc EXCEPT ![r] = "ready"]
    /\ UNCHANGED instance
    /\ UNCHANGED activeVars
    /\ UNCHANGED indexVars
    /\ UNCHANGED cfaVars
    /\ UNCHANGED fragVars

\* if lock: lock.acquire() -- waits while another task holds the lock.
AcquireStep(r) ==
    /\ pc[r] = "ready"
    /\ IF obtained[r] = Some(0) THEN TRUE
       ELSE \A q \in Readers \ {r} :
               ~(pc[q] = "reading" /\ obtained[q] = obtained[r])
    /\ pc' = [pc EXCEPT ![r] = "reading"]
    /\ UNCHANGED <<instance, locks, made, obtained>>
    /\ UNCHANGED activeVars
    /\ UNCHANGED indexVars
    /\ UNCHANGED cfaVars
    /\ UNCHANGED fragVars

\* The read is done: if lock: lock.release(), and the task drops its
\* reference to the lock.
ReleaseStep(r) ==
    /\ pc[r] = "reading"
    /\ pc' = [pc EXCEPT ![r] = "done"]
    /\ UNCHANGED <<instance, locks, made, obtained>>
    /\ UNCHANGED activeVars
    /\ UNCHANGED indexVars
    /\ UNCHANGED cfaVars
    /\ UNCHANGED fragVars

\* The registry holds its locks by weak reference: the entry of a lock
\* that no task refers to goes away.
CollectStep ==
    /\ \E token \in DOMAIN locks :
          /\ Referring(locks[token]) = {}
          /\ locks' = [t \in DOMAIN locks \ {token} |-> locks[t]]
    /\ UNCHANGED <<instance, made, obtained, pc>>
    /\ UNCHANGED activeVars
    /\ UNCHANGED indexVars
    /\ UNCHANGED cfaVars
    /\ UNCHANGED fragVars

NextLock ==
    \/ \E r \in Readers : DaskLockStep(r)
    \/ \E r \in Readers : AcquireStep(r)
    \/ \E r \in Readers : ReleaseStep(r)
    \/ CollectStep

SpecLock == InitLock /\ [][NextLock]_vars

(***************************************************************************)
(* actify and active_chunk_function                                        *)
(***************************************************************************)
active_reduction_methods == {"max", "mean", "min", "sum"}

\* The checks of active_chunk_function that end it with None: active
\* storage is off, there is no URL, the method, the data, the weights
\* or the axes do not allow an active storage reduction.
NotAppropriate(c) ==
    \/ ~c.active_storage
    \/ (IsNone(c.url_kwarg) /\ IsNone(c.url_setting))
    \/ c.method \notin active_reduction_methods
    \/ ~c.x_active_storage
    \/ (c.nargs = 2 /\ ~IsNone(c.weights))
    \/ c.axis = "subset"

\* active_chunk_function(method, *args, **kwargs): what it returns or
\* raises. details is assigned only when the logging level is INFO, and
\* is read by the handler of a failed reduction.
ActiveChunkFunction(c) ==
    IF c.computing_meta THEN [kind |-> "x", exc |-> "none"]
    ELSE IF NotAppropriate(c) THEN [kind |-> "None", exc |-> "none"]
    ELSE LET info == c.info
             details_bound == info
         IN IF c.reduction = "Exception"
            THEN (IF details_bound
                  THEN [kind |-> "raise", exc |-> "ActiveStorageError"]
                  ELSE [kind |-> "raise", exc |-> "UnboundLocalError"])
            ELSE [kind |-> "d", exc |-> "none"]

\* The wrapper that actify puts around chunk_function: what a call of
\* the decorated function returns ("active": what active_chunk_function
\* returned, "local": what chunk_function returned) or raises.
Wrapper(c) ==
    LET out == ActiveChunkFunction(c)
    IN IF out.kind = "raise"
       THEN (IF out.exc = "ActiveStorageError"
             THEN [kind |-> "local", exc |-> "none"]
             ELSE [kind |-> "raise", exc |-> out.exc])
       ELSE IF out.kind # "None"
       THEN [kind |-> "active", exc |-> "none", out |-> out.kind]
       ELSE [kind |-> "local", exc |-> "none"]

(***************************************************************************)
(* SpecActive: a decorated chunk function is called once.                  *)
(***************************************************************************)
Methods == active_reduction_methods \cup {"var"}

InitActive ==
    /\ chunk_call = None /\ chunk_out = None
    /\ instance = <<>> /\ locks = <<>> /\ made = 0
    /\ obtained = <<>> /\ pc = <<>>
    /\ cfa = None /\ plan = None /\ iters = None
    /\ passes = None /\ yielded = None /\ graph = None /\ got = None
    /\ shape = <<>> /\ cindex = None /\ coshape = None /\ err = "none"
    /\ depth = 0 /\ last = <<>> /\ expect = <<>>
    /\ older = None /\ call = None /\ request = <<>>
    /\ fragment = None /\ resolved = None

\* cf_<method>_chunk(x, [weights,] **kwargs) under the settings of the
\* moment; reduction is what active[index] does when it is reached.
ChunkCallStep ==
    /\ chunk_call = None
    /\ \E method \in Methods, computing_meta \in BOOLEAN,
          on \in BOOLEAN, url_kwarg \in {None, Some("url")},
          url_setting \in {None, Some("url")}, x_active \in BOOLEAN,
          info \in BOOLEAN, reduction \in {"ok", "Exception"} :
          \E args \in {[nargs |-> 1, weights |-> None],
                        [nargs |-> 2, weights |-> None],
                        [nargs |-> 2, weights |-> Some("w")]},
             axis \in {"None", "all", "subset"} :
             LET c == [method |-> method, computing_meta |-> computing_meta,
                       active_storage |-> on, url_kwarg |-> url_kwarg,
                       url_setting |-> url_setting,
                       x_active_storage |-> x_active,
                       nargs |-> args.nargs, weights |-> args.weights,
                       axis |-> axis, info |-> info, reduction |-> reduction]
             IN /\ chunk_call' = Some(c)
                /\ chunk_out' = Some(Wrapper(c))
    /\ UNCHANGED lockVars
    /\ UNCHANGED indexVars
    /\ UNCHANGED cfaVars
    /\ UNCHANGED fragVars

NextActive == ChunkCallStep

SpecActive == InitActive /\ [][NextActive]_vars

(***************************************************************************)
(* Claims about CFAMixin, checked under SpecCFA.                           *)
(***************************************************************************)
Agg == cfa[1]
Planned == Built /\ ~IsNone(plan) /\ plan[1].err = "none"
Enumerated == Planned /\ ~IsNone(iters)
\* The extent of a (start, stop) location range.
Extent(loc) == loc[2] - loc[1]

\* C4: whenever subarray_shapes returns, on every dimension with more
\* than one fragment the sizes it returns are the extents of the
\* fragments along that dimension, in grid order, whatever was requested.
C4_FragmentedDimsKeepFragmentSizes ==
    Planned =>
        \A d \in FragmentedDims(Agg.fragment_shape) :
            /\ Len(plan[1].chunks[d]) = Agg.fragment_shape[d]
            /\ \A key \in DOMAIN Agg.aggregated_data :
                   plan[1].chunks[d][key[d] + 1]
                       = Extent(Agg.aggregated_data[key].location[d])

\* C4 witness: chunks of size 1 were requested of an aggregate whose
\* first dimension holds fragments of sizes 2 and 1.
C4_Witness ==
    /\ Planned
    /\ plan[1].shapes = [scalar |-> ChunkInt(1)]
    /\ Agg.fragment_shape[1] = 2
    /\ plan[1].chunks[1] = <<2, 1>>

\* The k-th subarray that the fresh iterators describe.
NSubarrays == Len(iters[1][1].items)
U_indices(k) == iters[1][1].items[k]
F_location(k) == iters[1][5].items[k]
\* slice(i, j) lies in the range loc, or is the range loc.
Within(sl, loc) == loc[1] <= sl.start[1] /\ sl.stop[1] <= loc[2]
Covers(sl, loc) == loc[1] = sl.start[1] /\ sl.stop[1] = loc[2]
\* slice(i, j) and the range loc have a position in common.
Overlaps(sl, loc) ==
    Max2(sl.start[1], loc[1]) < Min2(sl.stop[1], loc[2])

\* C5: every enumerated subarray lies in the fragment that its
\* fragment location names, on every dimension, and is that fragment's
\* whole range on a fragmented dimension; it shares no element with any
\* other fragment.
C5_SubarrayInOneFragment ==
    Enumerated =>
        \A k \in 1..NSubarrays :
            /\ F_location(k) \in DOMAIN Agg.aggregated_data
            /\ \A d \in 1..Len(Agg.shape) :
                   LET loc == Agg.aggregated_data[F_location(k)].location[d]
                   IN /\ Within(U_indices(k)[d], loc)
                      /\ d \in FragmentedDims(Agg.fragment_shape)
                            => Covers(U_indices(k)[d], loc)
            /\ \A key \in DOMAIN Agg.aggregated_data \ {F_location(k)} :
                   \E d \in 1..Len(Agg.shape) :
                      ~Overlaps(U_indices(k)[d],
                                Agg.aggregated_data[key].location[d])

\* C5 witness: two fragments along the first dimension and two
\* subarrays of the one fragment along the second: four subarrays.
C5_Witness ==
    /\ Enumerated
    /\ Agg.fragment_shape = <<2, 1>>
    /\ Len(plan[1].chunks[2]) = 2
    /\ NSubarrays = 4
    /\ \A d \in 1..2 : Agg.shape[d] > 0

\* C9 as stated: a second loop over one of the six iterators yields the
\* same records again.
C9_SecondPassYieldsSame ==
    (Enumerated /\ ~IsNone(passes) /\ passes[1].n >= 2)
        => yielded[1] = iters[1][passes[1].k].items

\* C9 as amended: each of the six iterators is finite and single-pass:
\* the first loop over it yields every record once, in product order,
\* and every later loop yields nothing.
C9_SinglePass ==
    (Enumerated /\ ~IsNone(passes)) =>
        /\ passes[1].n = 1 =>
              yielded[1] = Subarrays(Agg, plan[1].chunks)[passes[1].k]
        /\ passes[1].n >= 2 => yielded[1] = <<>>

\* C9 witness: one iterator over four records has been looped over
\* twice.
C9_Witness ==
    /\ Enumerated /\ ~IsNone(passes)
    /\ passes[1].n = 2
    /\ Len(iters[1][passes[1].k].items) = 4

\* The dimensions of size 0, and an aggregate with a fragment for every
\* coordinate of its fragment grid.
ZeroDims == {d \in 1..Len(Agg.shape) : Agg.shape[d] = 0}
Consistent ==
    \A d \in 1..Len(Agg.shape) :
        {key[d] : key \in DOMAIN Agg.aggregated_data}
            = 0..(Agg.fragment_shape[d] - 1)
\* A request that subarray_shapes accepts for the aggregate: a sequence
\* has one entry per dimension, and an explicit tuple on an unfragmented
\* dimension adds up to the size of the dimension.
ValidRequest(shapes) ==
    /\ "seq" \in DOMAIN shapes => Len(shapes.seq) = Len(Agg.shape)
    /\ \A d \in 1..Len(Agg.shape) \ FragmentedDims(Agg.fragment_shape) :
           "t" \in DOMAIN RequestFor(shapes, d)
               => SumSeq(RequestFor(shapes, d).t) = Agg.shape[d]
\* The number of chunk locations of a tuple of chunks.
RECURSIVE NChunks(_)
NChunks(chunks) ==
    IF Len(chunks) = 0 THEN 1 ELSE Len(Head(chunks)) * NChunks(Tail(chunks))

GraphAsked ==
    /\ Built /\ Consistent /\ ~IsNone(graph)
    /\ ValidRequest(graph[1].chunks_req)
\* The aggregate holds netCDF fragments.
NetCDFFragments ==
    \A key \in DOMAIN Agg.aggregated_data :
        Agg.aggregated_data[key].format = "nc"
\* The records that subarrays enumerates for the chunks of the graph.
Records == Subarrays(Agg, SubarrayShapes(Agg, graph[1].chunks_req).chunks)

\* C11: to_dask_array returns a graph with exactly one task for every
\* subarray record, keyed by the chunk location of the record (no two
\* records share a key); the task applies the record's index into the
\* fragment to a handle that is stored in the graph and was built from
\* the descriptor at the record's fragment location.
C11_OneTaskPerSubarray ==
    GraphAsked =>
        /\ graph[1].err = "none"
        /\ Cardinality(DOMAIN graph[1].tasks) = Len(Records[4])
        /\ \A k \in 1..Len(Records[4]) :
              /\ Records[4][k] \in DOMAIN graph[1].tasks
              /\ graph[1].tasks[Records[4][k]].f_indices = Records[3][k]
              /\ graph[1].tasks[Records[4][k]].key \in graph[1].handles
              /\ LET h == graph[1].tasks[Records[4][k]].key
                     d == Agg.aggregated_data[Records[5][k]]
                 IN /\ h.shape = Records[6][k]
                    /\ IF d.format = "nc"
                       THEN h.filename = d.filename /\ h.address = d.address
                       ELSE h.fill_value = d.fill_value

\* C12: to_dask_array builds the handle of every netCDF fragment, with
\* masking off when the mask setting of the aggregate is off and with
\* masking on when it is on.
C12_MaskIsPropagated ==
    (GraphAsked /\ NetCDFFragments) =>
        /\ graph[1].err = "none"
        /\ \A h \in graph[1].handles : h.mask = graph[1].mask

\* C13: when the storage options of the aggregate are set, the handle
\* of every netCDF fragment that to_dask_array builds holds them,
\* unchanged.
C13_StorageOptionsArePassed ==
    (GraphAsked /\ graph[1].err = "none"
        /\ ~IsNone(graph[1].storage_options)) =>
        \A h \in graph[1].handles :
            h.cls = "NetCDFFragmentArray"
                => h.storage_options = graph[1].storage_options

\* The k-th records of the other sequences that subarrays returned.
U_shapes(k) == iters[1][2].items[k]
F_indices(k) == iters[1][3].items[k]
S_location(k) == iters[1][4].items[k]
F_shapes(k) == iters[1][6].items[k]

\* C27: for every subarray that subarrays enumerates, the index into its
\* fragment is the full slice on every fragmented dimension and is the
\* logical index range of the subarray on every other dimension.
C27_FragmentIndexFullOrLogical ==
    Enumerated =>
        \A k \in 1..NSubarrays :
            /\ Len(F_indices(k)) = Len(U_indices(k))
            /\ \A d \in 1..Len(U_indices(k)) :
                   IF d \in FragmentedDims(Agg.fragment_shape)
                   THEN F_indices(k)[d] = FullSlice
                   ELSE F_indices(k)[d] = U_indices(k)[d]

\* C27 witness: two fragments along the first dimension, and the one
\* fragment along the second is cut into two subarrays, the second of
\* which is positions 1 to 2 of the fragment.
C27_Witness ==
    /\ Enumerated
    /\ FragmentedDims(Agg.fragment_shape) = {1}
    /\ NSubarrays = 4
    /\ F_indices(4) = <<FullSlice, Range(1, 2)>>
    /\ U_indices(4)[1] # FullSlice

\* The positions of the elements of the aggregated array, and the
\* subarrays whose logical ranges hold the element at position p.
Elements ==
    {p \in [1..Len(Agg.shape) -> 0..(MaxFrags * MaxExtent + MaxExtent)] :
        \A d \in 1..Len(Agg.shape) : p[d] < Agg.shape[d]}
Holding(p) ==
    {k \in 1..NSubarrays :
        \A d \in 1..Len(Agg.shape) :
            U_indices(k)[d].start[1] <= p[d] /\ p[d] < U_indices(k)[d].stop[1]}

\* C28: for subarray shapes that subarray_shapes returned, every element
\* of the aggregated array lies in the logical range of exactly one
\* subarray; each of the six sequences has as many records as the
\* product of the numbers of subarrays along the dimensions; and the
\* k-th records of the six describe one subarray: its shape is the
\* extent of its logical range, its logical range starts after the
\* subarrays before its chunk location, its fragment location is its
\* chunk location on the fragmented dimensions and 0 on the others, and
\* its fragment shape is its shape on the fragmented dimensions and the
\* size of the array on the others.
C28_SubarraysPartitionArray ==
    Enumerated =>
        /\ \A p \in Elements : Cardinality(Holding(p)) = 1
        /\ \A i \in 1..6 : Len(iters[1][i].items) = NChunks(plan[1].chunks)
        /\ \A k \in 1..NSubarrays : \A d \in 1..Len(Agg.shape) :
              LET c == plan[1].chunks[d]
                  j == S_location(k)[d]
                  fragmented == d \in FragmentedDims(Agg.fragment_shape)
              IN /\ j \in 0..(Len(c) - 1)
                 /\ U_indices(k)[d] = Range(SumSeq(SubSeq(c, 1, j)),
                                            SumSeq(SubSeq(c, 1, j + 1)))
                 /\ U_shapes(k)[d] = c[j + 1]
                 /\ F_location(k)[d] = IF fragmented THEN j ELSE 0
                 /\ F_shapes(k)[d] = IF fragmented THEN c[j + 1]
                                     ELSE Agg.shape[d]
        /\ \A k, l \in 1..NSubarrays :
              S_location(k) = S_location(l) => k = l

\* C28 witness: an array of shape (3, 2) in fragments of sizes 2 and 1
\* along the first dimension, cut in two along the second: four
\* subarrays, the last of which is the element at (2, 1).
C28_Witness ==
    /\ Enumerated
    /\ Agg.shape = <<3, 2>>
    /\ plan[1].chunks = <<<<2, 1>>, <<1, 1>>>>
    /\ NSubarrays = 4
    /\ Holding(<<2, 1>>) = {4}
    /\ Cardinality(Elements) = 6

\* C25: in the graph that to_dask_array returns, every task refers to a
\* handle stored in the graph; two tasks whose subarrays are drawn from
\* the same fragment refer to the same handle entry, and two tasks drawn
\* from fragments with different file names or addresses refer to
\* different handle entries.
C25_HandlesKeyedByFragment ==
    (GraphAsked /\ graph[1].err = "none") =>
        LET recs == Records
            TaskOf(k) == graph[1].tasks[recs[4][k]]
            DescriptorOf(k) == Agg.aggregated_data[recs[5][k]]
        IN \A j, k \in 1..Len(recs[4]) :
              /\ TaskOf(k).key \in graph[1].handles
              /\ recs[5][j] = recs[5][k] => TaskOf(j).key = TaskOf(k).key
              /\ (/\ DescriptorOf(j).format = "nc"
                  /\ DescriptorOf(k).format = "nc"
                  /\ \/ DescriptorOf(j).filename # DescriptorOf(k).filename
                     \/ DescriptorOf(j).address # DescriptorOf(k).address)
                    => TaskOf(j).key # TaskOf(k).key

\* C25 witness: a graph of four tasks over two netCDF fragments, each
\* of which two subarrays are drawn from.
C25_Witness ==
    /\ GraphAsked /\ graph[1].err = "none"
    /\ NetCDFFragments
    /\ Cardinality(DOMAIN Agg.aggregated_data) = 2
    /\ Cardinality(DOMAIN graph[1].tasks) = 4
    /\ Cardinality(graph[1].handles) = 2
    /\ graph[1].tasks[<<0, 0>>].key = graph[1].tasks[<<0, 1>>].key
    /\ graph[1].tasks[<<0, 0>>].key # graph[1].tasks[<<1, 0>>].key

\* The aggregate holds constant-valued fragments.
FullFragments ==
    \A key \in DOMAIN Agg.aggregated_data :
        Agg.aggregated_data[key].format = "full"

\* C30: for an aggregate of constant-valued fragments to_dask_array
\* raises nothing and builds one task for every subarray record, whether
\* the storage options of the aggregate are empty or not.
C30_FullFragmentsAnyStorageOptions ==
    (GraphAsked /\ FullFragments) =>
        /\ graph[1].err = "none"
        /\ Cardinality(DOMAIN graph[1].tasks) = Len(Records[4])

\* The grid coordinates along dimension d that have a fragment, and the
\* location ranges along d of the fragments at coordinate j.
CoordsAlong(d) == {key[d] : key \in DOMAIN Agg.aggregated_data}
RangesAt(d, j) ==
    {Agg.aggregated_data[key].location[d] :
        key \in {k \in DOMAIN Agg.aggregated_data : k[d] = j}}

\* C19: for every aggregate that _parse_cfa returns, on every dimension
\* the fragments at one grid coordinate share one location range, the
\* range at coordinate 0 starts at 0, each range starts where the range
\* before it stops, no range stops before it starts, and the last range
\* stops at the size of the dimension.
C19_LocationsPartitionDimension ==
    Built =>
        \A d \in 1..Len(Agg.shape) :
            LET n == Cardinality(CoordsAlong(d))
                r(j) == CHOOSE x \in RangesAt(d, j) : TRUE
            IN /\ CoordsAlong(d) = 0..(n - 1)
               /\ \A j \in 0..(n - 1) :
                     /\ Cardinality(RangesAt(d, j)) = 1
                     /\ r(j)[1] <= r(j)[2]
                     /\ r(j)[1] = IF j = 0 THEN 0 ELSE r(j - 1)[2]
               /\ r(n - 1)[2] = Agg.shape[d]

\* C19 witness: an aggregate of two by two fragments, of sizes 2 and 1
\* along the first dimension.
C19_Witness ==
    /\ Built
    /\ Cardinality(DOMAIN Agg.aggregated_data) = 4
    /\ Agg.shape = <<3, 2>>
    /\ Agg.aggregated_data[<<1, 1>>].location = <<<<2, 3>>, <<1, 2>>>>

\* C20: every aggregate that _parse_cfa returns has, on every dimension,
\* as many fragments in its fragment shape as it has location ranges,
\* and a descriptor for every grid coordinate of its fragment shape.
C20_FragmentShapeMatchesLocations ==
    Built =>
        /\ \A d \in 1..Len(Agg.shape) :
              Agg.fragment_shape[d] = Cardinality(CoordsAlong(d))
        /\ \A d \in 1..Len(Agg.shape) :
              CoordsAlong(d) = 0..(Agg.fragment_shape[d] - 1)

(***************************************************************************)
(* Claims about get_aggregated_data, checked under SpecAgg.                *)
(***************************************************************************)
\* The aggregate as it was when get_aggregated_data was called.
AggAtGet == [cfa[1] EXCEPT !.aggregated_data = got[1].stored0]

\* C14: after get_aggregated_data(copy=True), whatever the caller does
\* to the returned mapping or to a descriptor in it, the aggregated data
\* that the array holds is what it was at the call, and subarray_shapes,
\* subarrays and to_dask_array return what they return for it.
C14_CopyIsIndependent ==
    (Built /\ ~IsNone(got) /\ got[1].copy) =>
        /\ cfa[1].aggregated_data = got[1].stored0
        /\ ~IsNone(plan) =>
              plan[1] = [shapes |-> plan[1].shapes]
                        @@ SubarrayShapes(AggAtGet, plan[1].shapes)
        /\ ~IsNone(iters) =>
              \A k \in 1..6 :
                  iters[1][k].items = Subarrays(AggAtGet, plan[1].chunks)[k]
        /\ ~IsNone(graph) =>
              graph[1] = [chunks_req |-> graph[1].chunks_req,
                          mask |-> graph[1].mask,
                          storage_options |-> graph[1].storage_options]
                         @@ ToDaskArray(AggAtGet, graph[1].chunks_req,
                                        graph[1].mask,
                                        graph[1].storage_options)

\* C14 witness: the location of a fragment was overwritten in a deep
\* copy of the aggregated data of two netCDF fragments, and a graph was
\* built afterwards.
C14_Witness ==
    /\ Built /\ ~IsNone(got) /\ got[1].copy
    /\ got[1].mutated
    /\ Cardinality(DOMAIN got[1].value) = 2
    /\ \E key \in DOMAIN got[1].value :
          got[1].value[key].location # got[1].stored0[key].location
    /\ ~IsNone(graph) /\ graph[1].err = "none"
    /\ Cardinality(DOMAIN graph[1].tasks) = 2

(***************************************************************************)
(* Claims about IndexMixin, checked under SpecIndex.                       *)
(***************************************************************************)
Composed == err = "none" /\ depth > 0
StoredIndex == cindex[1]
StoredOriginal == coshape[1]
Dims == 1..Len(StoredIndex)

\* C1: after every subspace that returns, the stored index selects from
\* each dimension of the original array exactly the positions, in the
\* same order, that the receiver's index followed by the requested index
\* selects.
C1_ComposedSelectsSame ==
    Composed =>
        \A d \in Dims :
            Positions(StoredIndex[d], StoredOriginal[d]) = expect[d]

\* C2: when a slice was composed onto a slice and the new slice selects
\* nothing of the current dimension, the stored slice selects nothing of
\* the original dimension.
C2_EmptySliceStaysEmpty ==
    Composed =>
        \A d \in Dims :
            (last[d].k0 = "slice" /\ last[d].k1 = "slice" /\ last[d].empty1)
                => Len(Positions(StoredIndex[d], StoredOriginal[d])) = 0

\* resolved_shape: for each dimension that no integer removed, the
\* number of positions that the index entry selects.
RECURSIVE resolved_shape(_, _)
resolved_shape(original_shape, index) ==
    IF Len(index) = 0 THEN <<>>
    ELSE (IF IsInt(Head(index)) THEN <<>>
          ELSE <<Len(Positions(Head(index), Head(original_shape)))>>)
         \o resolved_shape(Tail(original_shape), Tail(index))

\* C3: after every subspace, the stored shape is the resolved shape of
\* the stored index on the original shape.
C3_ShapeIsResolvedShape ==
    Composed => shape = resolved_shape(StoredOriginal, StoredIndex)

\* C3 witness: a chain of subspaces after which one dimension is
\* removed by an integer and the other holds an empty selection.
C3_Witness ==
    /\ Composed
    /\ depth >= 2
    /\ IsInt(StoredIndex[2])
    /\ shape = <<0>>
    /\ last[1].k0 = "slice" /\ last[1].k1 = "slice"


\* The first array of the chain and the array that the next subspace is
\* taken of, and the shape of the first.
TrackedArrays == {Self} \cup (IF IsNone(older) THEN {} ELSE {older[1].x})
RootShape == IF IsNone(older) THEN shape ELSE older[1].before.shape
Called == ~IsNone(call)

\* C15: after a subspace that returns, its receiver shows the shape,
\* index and original_shape that it showed before the call; and the
\* first array of a chain still shows, after every later subspace of the
\* arrays derived from it, what it showed before it was subspaced.
C15_ReceiverIsUnchanged ==
    /\ (Called /\ depth > call[1].depth0) => call[1].same
    /\ ~IsNone(older) => Observables(older[1].x) = older[1].before

\* C15 witness: two subspaces in a chain, the first of an array without
\* a recorded index, each giving another shape.
C15_Witness ==
    /\ depth = 2 /\ ~IsNone(older)
    /\ Called /\ call[1].depth0 = 1
    /\ IsInt(cindex[1][2])
    /\ older[1].before.index = <<FullSlice, FullSlice>>
    /\ Len(shape) = 1 /\ shape[1] # older[1].before.shape[1]

\* C16: an array whose index was observed before any subspace holds one
\* slice(None) per dimension and its shape as original shape; every
\* array of a chain of subspaces shows the shape of the first array as
\* its original_shape, and a recorded index has one entry for each
\* dimension of that shape.
C16_IndexDefaultsAndPins ==
    /\ (IsNone(older) /\ depth = 0 /\ ~IsNone(cindex)) =>
          /\ cindex[1] = [d \in 1..Len(shape) |-> FullSlice]
          /\ coshape = Some(shape)
    /\ \A x \in TrackedArrays :
          /\ Observables(x).original_shape = RootShape
          /\ Len(Observables(x).index) = Len(RootShape)
          /\ ~IsNone(x.cindex) => x.coshape = Some(RootShape)

\* C16 witness: the second subspace of a chain, taken after an integer
\* removed the first dimension.
C16_Witness ==
    /\ depth = 2 /\ ~IsNone(older)
    /\ IsInt(cindex[1][1])
    /\ Len(shape) = 1
    /\ IsArr(cindex[1][2])

\* C17: a call that pairs an integer, or an integer array with an
\* element, outside the range of the current dimension with a slice or
\* an integer array of the receiver raises IndexError; no array is
\* returned and the receiver shows what it showed before.
C17_OutOfRangeRaisesAtCall ==
    (Called /\ call[1].oor # {}) =>
        /\ err = "IndexError"
        /\ depth = call[1].depth0
        /\ call[1].same

\* C17 witness: an out-of-range request on a dimension for which the
\* receiver holds an integer array.
C17_Witness ==
    /\ Called
    /\ call[1].oor = {"arr"}
    /\ depth = 1
    /\ err = "IndexError"

C26_IntegerTakesNoEntry ==
    (Called /\ err = "none") =>
        /\ call[1].carried
        /\ call[1].inorder
        /\ \A d \in 1..Len(last) :
              last[d].k0 = "int" => IsInt(StoredIndex[d])

\* C26 witness: the first dimension was removed by an integer, and the
\* one entry of the next index, an integer array, was applied to the
\* second dimension.
C26_Witness ==
    /\ Called /\ err = "none"
    /\ depth = 2
    /\ last[1].k0 = "int"
    /\ last[2].k0 = "slice" /\ last[2].k1 = "arr"
    /\ call[1].nindex = 1
    /\ IsInt(StoredIndex[1]) /\ IsArr(StoredIndex[2])

\* The original dimensions on which the last call applied an integer
\* array.
ArrayDims == {d \in 1..Len(last) : last[d].k1 = "arr"}

\* C23: when a call applies integer arrays on two or more dimensions,
\* the new array has a dimension for each of them, whose size is the
\* number of elements of the array applied on it: the arrays are not
\* paired element by element.
C23_IndexingIsOrthogonal ==
    (Called /\ err = "none" /\ Cardinality(ArrayDims) >= 2) =>
        /\ Len(shape) = Cardinality({d \in Dims : ~IsInt(StoredIndex[d])})
        /\ \A d \in ArrayDims :
              /\ IsArr(StoredIndex[d])
              /\ shape[CurPos(StoredIndex, d)] = last[d].len1

\* C23 witness: d[[0], [1, 0]] on an array of two dimensions gives an
\* array of shape (1, 2).
C23_Witness ==
    /\ Called /\ err = "none"
    /\ depth = 1
    /\ ArrayDims = {1, 2}
    /\ last[1].len1 = 1 /\ last[2].len1 = 2
    /\ shape = <<1, 2>>
    /\ StoredIndex = <<ArrIdx(<<0>>), ArrIdx(<<1, 0>>)>>

(***************************************************************************)
(* The documented example, checked under SpecDoc.                          *)
(***************************************************************************)
\* C24: for an array of original shape (12, 145, 192) the subspace
\* [8:9, 10:20:3, [15, 1, 4, 12]] has shape (1, 3, 4), and the subspace
\* [[0], [True, False, True], ::-2] of that returns an array whose index
\* is ([8], [10, 16], [12, 1]) and whose shape is (1, 2, 2).
C24_DocstringExample ==
    /\ request = <<DocFirst>> =>
          /\ err = "none" /\ depth = 1
          /\ shape = <<1, 3, 4>>
    /\ request = <<DocFirst, DocSecond>> =>
          /\ err = "none" /\ depth = 2
          /\ StoredIndex = <<ArrIdx(<<8>>), ArrIdx(<<10, 16>>),
                             ArrIdx(<<12, 1>>)>>
          /\ shape = <<1, 2, 2>>

(***************************************************************************)
(* Claims about NetCDFArray._dask_lock, checked under SpecLock.            *)
(***************************************************************************)
\* The readers that hold a value of _dask_lock, and those that read.
HasLock(r) == pc[r] \in {"ready", "reading"}
Reading(r) == pc[r] = "reading"

\* C21: an array without a file name gives no lock (False); arrays with
\* a file name give a lock, the same lock when their file names are the
\* same and different locks when they differ; and no two tasks that
\* read through arrays of one file name read at the same time.
C21_LockKeyedByFile ==
    \A r1, r2 \in Readers :
        /\ (HasLock(r1) /\ IsNone(instance[r1])) => obtained[r1] = Some(0)
        /\ (HasLock(r1) /\ ~IsNone(instance[r1])) => obtained[r1] # Some(0)
        /\ (HasLock(r1) /\ HasLock(r2)
              /\ ~IsNone(instance[r1]) /\ ~IsNone(instance[r2])) =>
                 (instance[r1] = instance[r2] <=> obtained[r1] = obtained[r2])
        /\ (r1 # r2 /\ Reading(r1) /\ Reading(r2)
              /\ ~IsNone(instance[r1])) => instance[r1] # instance[r2]

\* C21 witness: two tasks read through arrays of one file; one is
\* reading, and the other holds the same lock and waits for it.
C21_Witness ==
    /\ ~IsNone(instance[1]) /\ instance[1] = instance[2]
    /\ pc[1] = "reading" /\ pc[2] = "ready"
    /\ obtained[1] = obtained[2] /\ obtained[1] # Some(0)
    /\ DOMAIN locks = {instance[1][1]}

(***************************************************************************)
(* Claims about actify, checked under SpecActive.                          *)
(***************************************************************************)
\* An active storage reduction was attempted in the call.
Attempted ==
    /\ ~IsNone(chunk_call)
    /\ ~chunk_call[1].computing_meta
    /\ ~NotAppropriate(chunk_call[1])

\* C22: a call of a decorated chunk function raises nothing of the
\* active storage reduction: it returns what the reduction gave or what
\* the local chunk function gives, and when a reduction was attempted
\* and failed it returns what the local chunk function gives, whether
\* the logging level is INFO or not.
C22_FallsBackToLocal ==
    ~IsNone(chunk_out) =>
        /\ chunk_out[1].kind \in {"active", "local"}
        /\ (Attempted /\ chunk_call[1].reduction = "Exception")
              => chunk_out[1].kind = "local"

(***************************************************************************)
(* Claims about NetCDFFragmentArray, checked under SpecFrag.               *)
(***************************************************************************)
Read == ~IsNone(fragment) /\ ~IsNone(resolved)
F_filenames == fragment[1].filenames
F_addresses == fragment[1].addresses
Attempts == resolved[1].attempts
Result == resolved[1].result
OutcomeOf(k) == resolved[1].outcomes[k]

\* The (filename, address) pairs of the fragment.
NCandidates == Min2(Len(F_filenames), Len(F_addresses))

\* The attempts are the first candidates, in the listed order.
InListedOrder ==
    /\ Len(Attempts) <= NCandidates
    /\ \A j \in 1..Len(Attempts) :
          /\ Attempts[j].filename = F_filenames[j]
          /\ Attempts[j].address = F_addresses[j]

\* C6: the candidate (filename, address) pairs of a fragment are tried in
\* the listed order; the data returned is that of the first candidate that
\* opens and reads successfully, and that candidate is the last one
\* attempted: none after it is attempted.
C6_FirstSuccessInOrder ==
    Read =>
        /\ InListedOrder
        /\ Result.kind = "data" =>
              /\ OutcomeOf(Len(Attempts)) = "ok"
              /\ \A j \in 1..(Len(Attempts) - 1) : OutcomeOf(j) # "ok"
              /\ Result.filename = F_filenames[Len(Attempts)]
              /\ Result.address = F_addresses[Len(Attempts)]
        /\ \A j \in 1..Len(Attempts) :
              OutcomeOf(j) = "ok" => (j = Len(Attempts) /\ Result.kind = "data")

\* A later candidate succeeds after an earlier one was not found.
C6_Witness ==
    /\ Read
    /\ Result.kind = "data"
    /\ Len(Attempts) = 2
    /\ NCandidates = 3
    /\ OutcomeOf(3) = "ok"

\* C7: a candidate that fails with a file-not-found error is skipped and
\* the next candidate, if any, is tried; a candidate that fails with any
\* other error is the last one attempted and the read fails with that
\* error, a RuntimeError naming the candidate's file name.
C7_NotFoundSkipsOtherFails ==
    Read =>
        \A j \in 1..Len(Attempts) :
            /\ (OutcomeOf(j) = "FileNotFoundError" /\ j < NCandidates)
                   => Len(Attempts) >= j + 1
            /\ OutcomeOf(j) \notin {"ok", "FileNotFoundError"} =>
                  /\ Len(Attempts) = j
                  /\ Result.kind = OutcomeOf(j)
                  /\ OutcomeOf(j) = "RuntimeError"
                        => Result.names = <<F_filenames[j]>>

\* A not-found candidate is followed by one that raises another error
\* while a readable candidate is left.
C7_Witness ==
    /\ Read
    /\ NCandidates = 3
    /\ OutcomeOf(1) = "FileNotFoundError"
    /\ OutcomeOf(2) = "RuntimeError"
    /\ OutcomeOf(3) = "ok"
    /\ Result.kind = "RuntimeError"

\* C8: when the read fails with the file-not-found error of the fragment,
\* every candidate file name of the fragment has been attempted exactly
\* once, and the error names the file names that were attempted and no
\* other.
C8_NotFoundNamesAllAttempted ==
    (Read /\ Result.kind = "FileNotFoundError") =>
        /\ Len(Attempts) = Len(F_filenames)
        /\ \A j \in 1..Len(Attempts) : Attempts[j].filename = F_filenames[j]
        /\ Result.names = [j \in 1..Len(Attempts) |-> Attempts[j].filename]

\* C29: storage options are given to the fragment array of a candidate if
\* and only if the file name of that candidate has the s3 scheme, whatever
\* candidates were attempted before it.
C29_StorageOptionsIffS3 ==
    Read =>
        \A j \in 1..Len(Attempts) :
            Attempts[j].storage_options
                <=> (UrlScheme(Attempts[j].filename) = "s3")

====
